---- MODULE Spec2Model ----
(***************************************************************************)
(* Model of the resumable, rate-limited DOI enrichment engine of           *)
(* src/pipeline_with_resume.py (class CAPESDOIEnricherFinal).              *)
(*                                                                         *)
(* Titles, DOIs and keys are TLA+ strings.  A Python value that may be     *)
(* None (a missing title, a null DOI) is a tuple: << >> is None and <<v>>  *)
(* is the value v.  Similarity scores are whole percents (the floor of the *)
(* float the library returns); every comparison the code makes is with the *)
(* integer threshold, which the floor does not change.                     *)
(***************************************************************************)
EXTENDS Integers, Sequences, FiniteSets, TLC

None == << >>
Some(v) == <<v>>
IsNone(o) == o = << >>
Val(o) == o[1]

Min(a, b) == IF a <= b THEN a ELSE b

\* ------------------------------------------------------------ strings

\* The characters the model's titles are written in, in code-point order.
Alphabet == "\n ./0123456789ABCDEFGHIJKLMNOPQRSTUVWXYZabcdefghijklmnopqrstuvwxyzÊê"
LowerLetters == "abcdefghijklmnopqrstuvwxyzê"
UpperLetters == "ABCDEFGHIJKLMNOPQRSTUVWXYZÊ"
AsciiUpper == "ABCDEFGHIJKLMNOPQRSTUVWXYZ"
Digits == "0123456789"

CharAt(s, i) == SubSeq(s, i, i)

RECURSIVE IndexOf(_, _, _)
\* The position of character c in s at or after i, 0 when there is none.
IndexOf(c, s, i) ==
    IF i > Len(s) THEN 0
    ELSE IF CharAt(s, i) = c THEN i
    ELSE IndexOf(c, s, i + 1)

Code(c) == IndexOf(c, Alphabet, 1)
IsSpace(c) == c = " " \/ c = "\n"
IsDigit(c) == IndexOf(c, Digits, 1) > 0
IsUpperAZ(c) == IndexOf(c, AsciiUpper, 1) > 0

\* str.upper() on one character
UpperChar(c) ==
    LET k == IndexOf(c, LowerLetters, 1)
    IN  IF k > 0 THEN CharAt(UpperLetters, k) ELSE c

RECURSIVE upper(_)
\* str.upper(): every character upper-cased, the string read by halves
upper(s) ==
    IF Len(s) = 0 THEN ""
    ELSE IF Len(s) = 1 THEN UpperChar(s)
    ELSE LET h == Len(s) \div 2
         IN  upper(SubSeq(s, 1, h)) \o upper(SubSeq(s, h + 1, Len(s)))

RECURSIVE lstrip(_)
lstrip(s) == IF s # "" /\ IsSpace(Head(s)) THEN lstrip(Tail(s)) ELSE s

RECURSIVE rstrip(_)
rstrip(s) ==
    IF s # "" /\ IsSpace(CharAt(s, Len(s)))
    THEN rstrip(SubSeq(s, 1, Len(s) - 1))
    ELSE s

\* str.strip()
strip(s) == rstrip(lstrip(s))

\* s[:n]
Prefix(s, n) == SubSeq(s, 1, Min(n, Len(s)))

\* the character class [A-Z\s]
IsUpperOrSpace(c) == IsUpperAZ(c) \/ IsSpace(c)

HasNewline(s) == \E i \in 1..Len(s) : CharAt(s, i) = "\n"

\* Python's `sub in s`
Contains(s, sub) ==
    \E i \in 1..(Len(s) - Len(sub) + 1) : SubSeq(s, i, i + Len(sub) - 1) = sub

\* ------------------------------------------------- configuration (__init__)

similarity_threshold == 90
\* r'^.{0,5}$'
SkipShortMax == 5
\* r'^.{250,}$'
SkipLongMin == 250
\* r'^[A-Z\s]{10,}$'
SkipUpperMin == 10
\* normalize_title: [:200]
KeyMaxLen == 200
\* rate_limit=80: the default of the constructor
rate_limit_default == 80

\* ------------------------------------------------- skip filter, cache key

\* What `$` lets a pattern end at: the end of the string, or just before a
\* newline that ends it.
DollarBodies(s) ==
    {s} \cup (IF s # "" /\ CharAt(s, Len(s)) = "\n"
              THEN {SubSeq(s, 1, Len(s) - 1)} ELSE {})

\* re.match(r'^[A-Z\s]{10,}$', s)
MatchUpperOnly(s) ==
    Len(s) >= SkipUpperMin /\ \A i \in 1..Len(s) : IsUpperOrSpace(CharAt(s, i))

\* re.match(r'^\d+\s*$', s)
MatchDigitsOnly(s) ==
    \E k \in 1..Len(s) :
        /\ \A i \in 1..k : IsDigit(CharAt(s, i))
        /\ \A i \in (k + 1)..Len(s) : IsSpace(CharAt(s, i))

\* re.match(r'^.{0,5}$', s): `.` matches no newline
MatchShort(s) ==
    \E b \in DollarBodies(s) : Len(b) <= SkipShortMax /\ ~HasNewline(b)

\* re.match(r'^.{250,}$', s)
MatchLong(s) ==
    \E b \in DollarBodies(s) : Len(b) >= SkipLongMin /\ ~HasNewline(b)

skip_patterns(s) ==
    MatchUpperOnly(s) \/ MatchDigitsOnly(s) \/ MatchShort(s) \/ MatchLong(s)

portuguese_indicators == {"OCORRÊNCIA DE", "PREVALÊNCIA DE", "ESTUDO DE CASO"}

\* should_skip_title(title); title is None (a missing value) or <<string>>
should_skip_title(title) ==
    IF IsNone(title) THEN TRUE
    ELSE IF strip(Val(title)) = "" THEN TRUE
    ELSE LET title_str == strip(Val(title))
         IN  \/ skip_patterns(title_str)
             \/ \E ind \in portuguese_indicators : Contains(upper(title_str), ind)

\* normalize_title(title): None, or <<key>> (the key is "" for a title of
\* whitespace only, which every caller treats like None: `if not normalized`)
normalize_title(title) ==
    IF IsNone(title) \/ Val(title) = "" THEN None
    ELSE Some(Prefix(upper(strip(Val(title))), KeyMaxLen))

\* Python's `not normalized`
NoKey(normalized) == IsNone(normalized) \/ Val(normalized) = ""

RECURSIVE Repeat(_, _)
\* Python's s * n
Repeat(s, n) ==
    IF n = 0 THEN ""
    ELSE IF n = 1 THEN s
    ELSE Repeat(s, n \div 2) \o Repeat(s, n - n \div 2)

\* ------------------------------------------------- rapidfuzz token_sort_ratio

RECURSIVE SplitFrom(_, _, _)
\* str.split(): the whitespace-separated tokens of s; cur is the token being read
SplitFrom(s, cur, acc) ==
    IF s = "" THEN (IF cur = "" THEN acc ELSE Append(acc, cur))
    ELSE IF IsSpace(Head(s))
         THEN SplitFrom(Tail(s), "", IF cur = "" THEN acc ELSE Append(acc, cur))
         ELSE SplitFrom(Tail(s), cur \o Head(s), acc)

Split(s) == SplitFrom(s, "", << >>)

RECURSIVE StrLess(_, _)
\* a < b in Python's string order
StrLess(a, b) ==
    IF b = "" THEN FALSE
    ELSE IF a = "" THEN TRUE
    ELSE IF Head(a) = Head(b) THEN StrLess(Tail(a), Tail(b))
    ELSE Code(Head(a)) < Code(Head(b))

RECURSIVE InsertSorted(_, _)
InsertSorted(tok, toks) ==
    IF toks = << >> THEN <<tok>>
    ELSE IF StrLess(tok, Head(toks)) THEN <<tok>> \o toks
    ELSE <<Head(toks)>> \o InsertSorted(tok, Tail(toks))

RECURSIVE SortTokens(_)
\* sorted(tokens)
SortTokens(toks) ==
    IF toks = << >> THEN << >>
    ELSE InsertSorted(Head(toks), SortTokens(Tail(toks)))

RECURSIVE JoinTokens(_)
\* " ".join(tokens)
JoinTokens(toks) ==
    IF toks = << >> THEN ""
    ELSE IF Len(toks) = 1 THEN toks[1]
    ELSE toks[1] \o " " \o JoinTokens(Tail(toks))

RECURSIVE LcsRow(_, _, _, _, _)
\* One row of the longest-common-subsequence table: prev is the row of the
\* characters before c, j the column, left the new row's entry at j - 1.
LcsRow(c, t, prev, j, left) ==
    IF j > Len(t) THEN << >>
    ELSE LET diag == IF j = 1 THEN 0 ELSE prev[j - 1]
             cell == IF CharAt(t, j) = c THEN diag + 1
                     ELSE IF prev[j] >= left THEN prev[j] ELSE left
         IN  <<cell>> \o LcsRow(c, t, prev, j + 1, cell)

RECURSIVE LcsRows(_, _, _)
LcsRows(s, t, prev) ==
    IF s = "" THEN prev
    ELSE LcsRows(Tail(s), t, LcsRow(Head(s), t, prev, 1, 0))

\* the length of a longest common subsequence of s and t
Lcs(s, t) ==
    IF t = "" THEN 0
    ELSE LcsRows(s, t, [j \in 1..Len(t) |-> 0])[Len(t)]

\* rapidfuzz.fuzz.ratio: 100 * (1 - indel_distance / (len1 + len2)), and 100
\* for two empty strings; floored to a whole percent
ratio(s, t) ==
    IF Len(s) + Len(t) = 0 THEN 100
    ELSE (200 * Lcs(s, t)) \div (Len(s) + Len(t))

\* rapidfuzz.fuzz.token_sort_ratio
token_sort_ratio(s, t) ==
    ratio(JoinTokens(SortTokens(Split(s))), JoinTokens(SortTokens(Split(t))))

\* ------------------------------------------------- find_best_match

\* A Crossref item is [DOI |-> None or <<doi>>, title |-> a list of strings].
\* item.get('title', [''])[0] if item.get('title') else ''
ItemTitle(item) == IF item.title # << >> THEN item.title[1] ELSE ""

ItemScore(original_title, item) ==
    token_sort_ratio(strip(upper(original_title)), strip(upper(ItemTitle(item))))

\* `if similarity >= 85:` a lower threshold
AcceptsFrom85(similarity) == similarity >= 85

\* `if similarity >= self.similarity_threshold:`
Accepts(similarity) == similarity >= similarity_threshold

RECURSIVE FirstMatch(_, _)
\* the for loop of find_best_match over the items that are left
FirstMatch(original_title, items) ==
    IF items = << >> THEN None
    ELSE LET item == Head(items)
             crossref_title == ItemTitle(item)
         IN  IF crossref_title = "" THEN FirstMatch(original_title, Tail(items))
             ELSE IF Accepts(ItemScore(original_title, item))
                  THEN Some([doi |-> item.DOI,
                             crossref_title |-> Some(crossref_title),
                             similarity_score |-> ItemScore(original_title, item),
                             from_cache |-> FALSE])
                  ELSE FirstMatch(original_title, Tail(items))

\* find_best_match(original_title, crossref_items): None or <<result>>
find_best_match(original_title, crossref_items) ==
    IF crossref_items = << >> THEN None
    ELSE FirstMatch(original_title, crossref_items)

\* ------------------------------------------------- bounds and inputs

\* the largest target_size of the single run of Spec
MaxTarget == 3
\* SpecResume: the number of runs (process starts) of one behaviour, and the
\* largest target_size of a run
MaxRuns == 2
ResumeMaxTarget == 2
\* batch_size and max_concurrent are drawn from 1..bound; checkpoint_interval is
\* MaxInterval in Spec and drawn from 1..MaxInterval in SpecScenario
MaxBatchSize == 2
MaxInterval == 2
MaxPermits == 2

\* SpecRun: the number of runs, the largest target_size, and the bounds that
\* batch_size and checkpoint_interval are drawn from
RunMaxRuns == 2
RunMaxTarget == 4
RunMaxBatchSize == 3
RunMaxInterval == 2

\* search_crossref: 'query.title': title[:100]
QueryMaxLen == 100
\* SpecMatch: the largest number of candidates in a response
MaxItems == 2
\* SpecCache: the largest number of calls in a behaviour
MaxCalls == 3
\* SpecScenario: max_concurrent is drawn from 1..bound
ScenarioMaxPermits == 2
\* save_checkpoint: [:-3]
KeepCheckpoints == 3

\* The input table: NM_PRODUCAO is the title (None: a missing value),
\* AN_BASE the year, row the record's identity.
InputRows ==
    << [NM_PRODUCAO |-> Some("Title one"),    AN_BASE |-> 2020, row |-> 1],
       [NM_PRODUCAO |-> Some(" title ONE\n"), AN_BASE |-> 2020, row |-> 2],
       [NM_PRODUCAO |-> None,                 AN_BASE |-> 2021, row |-> 3],
       [NM_PRODUCAO |-> Some("Second paper"), AN_BASE |-> 2021, row |-> 4] >>

\* The input table of SpecResume: two records with a title, of two years.
ResumeRows == << InputRows[1], InputRows[4] >>

\* An input table of records without a title, three of each of two years.
BlankRows ==
    [i \in 1..6 |-> [NM_PRODUCAO |-> None,
                    AN_BASE |-> IF i <= 3 THEN 2020 ELSE 2021,
                    row |-> 0]]

\* The table without its AN_BASE column (the model's rows keep the field, with
\* no year in it).
WithoutYear(rows) == [i \in 1..Len(rows) |-> [rows[i] EXCEPT !.AN_BASE = 0]]

\* What the external service may answer with on HTTP 200: the 'items' list.
ServiceItems ==
    { << >>,
      << [DOI |-> Some("10.1/one"), title |-> <<"Title One">>] >>,
      << [DOI |-> Some("10.1/x"), title |-> <<"Unrelated work">>],
         [DOI |-> Some("10.1/two"), title |-> <<"paper second">>] >> }

\* The ways one request can end: HTTP 200 with a list of items, HTTP 429,
\* another status, a timeout or transport error, a payload that does not parse.
Responses ==
    {[kind |-> "ok", items |-> its] : its \in ServiceItems}
    \cup {[kind |-> k, items |-> << >>] : k \in {"429", "status", "error", "malformed"}}

\* ------------------------------------------------- state

VARIABLES
    \* configuration (attributes set in __init__, fixed during a behaviour)
    max_concurrent, rate_limit, batch_size, checkpoint_interval,
    \* the input: the table handed to enrich_with_resume, and whether it has
    \* the AN_BASE column
    df, has_year,
    \* durable state: the crossref_cache table, the checkpoint files (name,
    \* modification time, content), the processing_progress table, the final
    \* output files, the clock modification times are read from
    cache, checkpoints, progress, final_output, clock,
    \* the run in progress: where enrich_with_resume is, its locals, the session
    pc, target_size, processed_df, remaining_df, new_enriched_data, batch_id,
    session,
    \* the batch in progress: process_batch's locals, one task per valid pair
    \* (process_title), the semaphore's free permits and its waiters
    batch_df, valid_pairs, tasks, sem_value, waiters,
    \* observation: how the last run ended and what it returned, the external
    \* requests issued by the current (or last) run, the runs started so far
    outcome, api_calls, runs,
    \* the direct calls of find_best_match, cache_result and get_cached_result
    \* made so far (the specifications of single functions), and None or
    \* <<the value the last one returned>>
    call, ret

config_vars == <<max_concurrent, rate_limit, batch_size, checkpoint_interval, df,
                 has_year>>
durable_vars == <<cache, checkpoints, progress, final_output, clock>>
run_vars == <<pc, target_size, processed_df, remaining_df, new_enriched_data,
              batch_id, session>>
batch_vars == <<batch_df, valid_pairs, tasks, sem_value, waiters>>
obs_vars == <<outcome, api_calls, runs>>
call_vars == <<call, ret>>
vars == <<config_vars, durable_vars, run_vars, batch_vars, obs_vars, call_vars>>

\* ------------------------------------------------- sequences (pandas)

RECURSIVE Concat(_)
\* pd.concat(dfs, ignore_index=True) of a non-empty list of tables
Concat(dfs) == IF dfs = << >> THEN << >> ELSE Head(dfs) \o Concat(Tail(dfs))

RECURSIVE SumLen(_)
\* sum(len(df) for df in dfs)
SumLen(dfs) == IF dfs = << >> THEN 0 ELSE Len(Head(dfs)) + SumLen(Tail(dfs))

\* df.head(n)
HeadRows(rows, n) == SubSeq(rows, 1, Min(n, Len(rows)))

\* ------------------------------------------------- match cache

\* SELECT ... FROM crossref_cache WHERE title_normalized = ?
CacheRows(c, key) == {r \in c : r.title_normalized = key}

\* get_cached_result(title) on cache table c: None or <<result>>
get_cached_result(title, c) ==
    LET normalized == normalize_title(title)
    IN  IF NoKey(normalized) THEN None
        ELSE LET found == CacheRows(c, Val(normalized))
             IN  IF found = {} THEN None
                 ELSE LET result == CHOOSE r \in found : TRUE
                      IN  Some([doi |-> result.doi,
                                crossref_title |-> result.crossref_title,
                                similarity_score |->
                                    IF IsNone(result.similarity_score) THEN 0
                                    ELSE Val(result.similarity_score),
                                from_cache |-> TRUE])

\* INSERT INTO a table without a primary key: the row is added
Insert(c, row) == c \cup {row}

\* INSERT OR REPLACE INTO crossref_cache: title_normalized is the primary key
InsertOrReplace(c, row) ==
    {r \in c : r.title_normalized # row.title_normalized} \cup {row}

\* the write is not committed: the table stays as it was
cache_result_lost(title, doi, crossref_title, similarity_score, c) == c

\* cache_result(title, doi, crossref_title, similarity_score): the table after
\* the call; similarity_score is None or <<number>>
cache_result(title, doi, crossref_title, similarity_score, c) ==
    LET normalized == normalize_title(title)
    IN  IF NoKey(normalized) THEN c
        ELSE InsertOrReplace(c, [title_normalized |-> Val(normalized),
                                 doi |-> doi,
                                 crossref_title |-> crossref_title,
                                 similarity_score |-> similarity_score])

\* ------------------------------------------------- checkpoint files

\* f'checkpoint_{target_size}_{records_processed}.parquet'
CheckpointName(target, count) ==
    "checkpoint_" \o ToString(target) \o "_" \o ToString(count) \o ".parquet"

StartsWith(s, pre) == Len(s) >= Len(pre) /\ SubSeq(s, 1, Len(pre)) = pre
EndsWith(s, suf) ==
    Len(s) >= Len(suf) /\ SubSeq(s, Len(s) - Len(suf) + 1, Len(s)) = suf

\* glob('checkpoint_*.parquet'): the checkpoints of every target size
GlobAnyTarget(files, target) ==
    {f \in files : StartsWith(f.name, "checkpoint_") /\ EndsWith(f.name, ".parquet")}

\* glob(f'checkpoint_{target_size}_*.parquet')
GlobCheckpoints(files, target) ==
    LET pre == "checkpoint_" \o ToString(target) \o "_"
    IN  {f \in files : /\ Len(f.name) >= Len(pre) + Len(".parquet")
                       /\ StartsWith(f.name, pre)
                       /\ EndsWith(f.name, ".parquet")}

\* Path.stem
Stem(name) == SubSeq(name, 1, Len(name) - Len(".parquet"))

RECURSIVE LastField(_, _)
\* filename.split('_')[-1]
LastField(s, cur) ==
    IF s = "" THEN cur
    ELSE IF Head(s) = "_" THEN LastField(Tail(s), "")
    ELSE LastField(Tail(s), cur \o Head(s))

RECURSIVE ParseInt(_, _)
\* int(s) of a string of digits
ParseInt(s, acc) ==
    IF s = "" THEN acc
    ELSE ParseInt(Tail(s), 10 * acc + (IndexOf(Head(s), Digits, 1) - 1))

\* int(filename.split('_')[-1])
RecordsProcessedOf(name) == ParseInt(LastField(Stem(name), ""), 0)

\* min instead of max: the checkpoint modified first
Oldest(files) == CHOOSE f \in files : \A g \in files : g.mtime >= f.mtime

\* max(checkpoint_files, key=lambda x: x.stat().st_mtime)
Latest(files) == CHOOSE f \in files : \A g \in files : g.mtime <= f.mtime

\* get_last_checkpoint(target_size): (checkpoint file or None, records_processed)
get_last_checkpoint(files, target) ==
    LET checkpoint_files == GlobCheckpoints(files, target)
    IN  IF checkpoint_files # {}
        THEN [file |-> Some(Latest(checkpoint_files)),
              records_processed |-> RecordsProcessedOf(Latest(checkpoint_files).name)]
        ELSE [file |-> None, records_processed |-> 0]

\* df.to_parquet(path): the file is created or replaced, modified now; whole
\* says that the write came to its end
WriteFile(files, name, content, now) ==
    {f \in files : f.name # name}
    \cup {[name |-> name, mtime |-> now, df |-> content, whole |-> TRUE]}

\* df.to_parquet(path) cut short by the end of the process: the file is there,
\* created or truncated, without the footer a reader needs
WritePartial(files, name, now) ==
    {f \in files : f.name # name}
    \cup {[name |-> name, mtime |-> now, df |-> << >>, whole |-> FALSE]}

\* [3:]: all but the three oldest
OldCheckpointsFromFourth(files, target) ==
    LET mine == GlobCheckpoints(files, target)
    IN  {f \in mine : Cardinality({g \in mine : g.mtime < f.mtime}) >= KeepCheckpoints}

\* [:-4]: all but the four newest
OldCheckpointsButFour(files, target) ==
    LET mine == GlobCheckpoints(files, target)
    IN  {f \in mine : Cardinality({g \in mine : g.mtime > f.mtime}) >= KeepCheckpoints + 1}

\* sorted(glob(...), key=mtime)[:-3]: all but the three newest
OldCheckpoints(files, target) ==
    LET mine == GlobCheckpoints(files, target)
    IN  {f \in mine : Cardinality({g \in mine : g.mtime > f.mtime}) >= KeepCheckpoints}

\* save_checkpoint(df, target_size, records_processed) at time now:
\* the checkpoint files and the progress table after the call
save_checkpoint(content, target, count, files, ledger, now) ==
    LET checkpoint_file == CheckpointName(target, count)
        written == WriteFile(files, checkpoint_file, content, now)
    IN  [files |-> written \ OldCheckpoints(written, target),
         ledger |-> Append(ledger, [id |-> Len(ledger) + 1,
                                    records_processed |-> count,
                                    target_size |-> target,
                                    checkpoint_file |-> checkpoint_file,
                                    status |-> "checkpoint"])]

\* ------------------------------------------------- sampling (enrich_with_resume)

RECURSIVE Unique(_, _)
\* df['AN_BASE'].unique(): the years in order of first appearance
Unique(rows, seen) ==
    IF rows = << >> THEN seen
    ELSE IF \E i \in 1..Len(seen) : seen[i] = Head(rows).AN_BASE
         THEN Unique(Tail(rows), seen)
         ELSE Unique(Tail(rows), Append(seen, Head(rows).AN_BASE))

\* df[df['AN_BASE'] == year]
YearData(rows, year) ==
    LET OfYear(r) == r.AN_BASE = year
    IN  SelectSeq(rows, OfYear)

\* rows.sample(n=n): every choice of n distinct rows, in every order
SampleRows(rows, n) ==
    LET picks == {g \in [1..n -> 1..Len(rows)] :
                     \A i, j \in 1..n : i # j => g[i] # g[j]}
    IN  {[i \in 1..n |-> rows[g[i]]] : g \in picks}

RECURSIVE YearSamples(_, _, _)
\* the concatenation of one sample per year, for the years that are left
YearSamples(rows, years, records_per_year) ==
    IF years = << >> THEN {<< >>}
    ELSE LET year_data == YearData(rows, Head(years))
             sample_size == Min(Len(year_data), records_per_year)
         IN  {a \o b : a \in SampleRows(year_data, sample_size),
                       b \in YearSamples(rows, Tail(years), records_per_year)}

\* Whether the stratified sampling raises: a division by zero years, or
\* pd.concat of no year sample ("No objects to concatenate").
SamplingRaises(rows, with_year, remaining_records) ==
    /\ with_year
    /\ \/ Len(Unique(rows, << >>)) = 0
       \/ \A i \in 1..Len(rows) :
              Min(Len(YearData(rows, rows[i].AN_BASE)),
                  remaining_records \div Len(Unique(rows, << >>))) = 0

\* df.sample(n=len(df)): the whole table, whatever is left to the target
SamplesWhole(rows, with_year, remaining_records) == SampleRows(rows, Len(rows))

\* the tables remaining_df may be
Samples(rows, with_year, remaining_records) ==
    IF with_year
    THEN LET years == Unique(rows, << >>)
             drawn == YearSamples(rows, years, remaining_records \div Len(years))
         IN  UNION {IF Len(d) > remaining_records
                    THEN SampleRows(d, remaining_records) ELSE {d} : d \in drawn}
    ELSE SampleRows(rows, Min(Len(rows), remaining_records))

\* ------------------------------------------------- process_batch, process_title

\* the (idx, title) pairs of the rows that are not skipped; idx is the row's
\* position in the batch
ValidPairs(rows) ==
    LET keep == {i \in 1..Len(rows) : ~should_skip_title(rows[i].NM_PRODUCAO)}
        Nth(n) == CHOOSE i \in keep : Cardinality({j \in keep : j < i}) = n - 1
    IN  [n \in 1..Cardinality(keep) |->
            [idx |-> Nth(n), title |-> rows[Nth(n)].NM_PRODUCAO]]

\* batch_df['from_cache'] = True: every row starts as served from the cache
InitColumnsFlagged(r) ==
    [NM_PRODUCAO |-> r.NM_PRODUCAO, AN_BASE |-> r.AN_BASE, row |-> r.row,
     doi |-> None, crossref_title |-> None, similarity_score |-> 0,
     from_cache |-> TRUE]

\* batch_df['doi'] = None, ['crossref_title'] = None, ['similarity_score'] = 0.0,
\* ['from_cache'] = False, on one row
InitColumns(r) ==
    [NM_PRODUCAO |-> r.NM_PRODUCAO, AN_BASE |-> r.AN_BASE, row |-> r.row,
     doi |-> None, crossref_title |-> None, similarity_score |-> 0,
     from_cache |-> FALSE]

\* `if cached and cached['doi']:` a cached no-match counts as a miss
IsHitWithDoi(cached) == ~IsNone(cached) /\ ~IsNone(Val(cached).doi)

\* `if cached:` a result dict is true whatever it holds
IsHit(cached) == ~IsNone(cached)

\* process_title without its cache lookup: every title that is not skipped
\* goes on to the semaphore
process_title_start_uncached(title, c) ==
    [returns |-> should_skip_title(title), result |-> None, lookups |-> 0]

\* process_title up to its first suspension: it returns (skip, cache hit) or goes
\* on to the semaphore; lookups counts the cache lookups made
process_title_start(title, c) ==
    IF should_skip_title(title)
    THEN [returns |-> TRUE, result |-> None, lookups |-> 0]
    ELSE LET cached == get_cached_result(title, c)
         IN  IF IsHit(cached)
             THEN [returns |-> TRUE, result |-> cached, lookups |-> 1]
             ELSE [returns |-> FALSE, result |-> None, lookups |-> 1]

\* A semaphore that never blocks.
SemNeverLocked(value, queue) == FALSE

\* Semaphore.locked(): no free permit, or a task is already waiting
SemLocked(value, queue) == value = 0 \/ queue # << >>

RECURSIVE Dispatch(_, _, _, _, _)
\* the tasks that have returned; seq is a task's place in the order of return
Returned(ts) == {k \in 1..Len(ts) : ts[k].seq > 0}

\* gather starts the tasks in order; each runs to its first suspension before
\* any suspended task resumes.  Returns the tasks, the free permits, the waiters.
Dispatch(pairs, c, started, value, queue) ==
    IF Len(started) = Len(pairs)
    THEN [tasks |-> started, value |-> value, waiters |-> queue]
    ELSE LET k == Len(started) + 1
             first == process_title_start(pairs[k].title, c)
             key == normalize_title(pairs[k].title)
             task == [idx |-> pairs[k].idx, title |-> pairs[k].title,
                      pc |-> IF first.returns THEN "done"
                             ELSE IF SemLocked(value, queue) THEN "wait"
                             ELSE "sleep",
                      result |-> first.result,
                      had_entry |-> ~NoKey(key) /\ CacheRows(c, Val(key)) # {},
                      lookups |-> first.lookups, calls |-> 0, writes |-> 0,
                      backoffs |-> 0, cause |-> "",
                      seq |-> IF first.returns
                              THEN Cardinality(Returned(started)) + 1 ELSE 0]
         IN  IF first.returns
             THEN Dispatch(pairs, c, Append(started, task), value, queue)
             ELSE IF SemLocked(value, queue)
             THEN Dispatch(pairs, c, Append(started, task), value, Append(queue, k))
             ELSE Dispatch(pairs, c, Append(started, task), value - 1, queue)

\* The body of search_crossref's try block on a response: whether it raises
\* (the request times out or fails, the payload does not parse), and its value.
RequestBody(title, resp) ==
    [raised |-> resp.kind \in {"error", "malformed"},
     value |-> IF resp.kind = "ok" THEN find_best_match(title, resp.items)
               ELSE None]

\* 'query.title': title[:100], the title as the service is asked for it
Query(title) == Prefix(title, QueryMaxLen)

\* search_crossref without its `except:` clause
search_crossref_unguarded(title, resp) == RequestBody(title, resp)

\* search_crossref: the bare `except:` turns every exception into None
search_crossref(title, resp) ==
    LET r == RequestBody(title, resp)
    IN  IF r.raised THEN [raised |-> FALSE, value |-> None] ELSE r

\* Only a match is cached: `if result: self.cache_result(...)` without its else.
CacheAfterMatchOnly(title, result, c) ==
    IF ~IsNone(result)
    THEN cache_result(title, Val(result).doi, Val(result).crossref_title,
                      Some(Val(result).similarity_score), c)
    ELSE c

\* the row a result is cached as: the match, or the explicit no-match
CacheAfter(title, result, c) ==
    IF ~IsNone(result)
    THEN cache_result(title, Val(result).doi, Val(result).crossref_title,
                      Some(Val(result).similarity_score), c)
    ELSE cache_result(title, None, None, Some(0), c)

\* tqdm's as_completed over the wrapped tasks: the pairs (i, result) in the
\* order the tasks returned
as_completed(ts) ==
    [n \in 1..Len(ts) |->
        LET k == CHOOSE k \in 1..Len(ts) : ts[k].seq = n
        IN  <<k, ts[k].result>>]

\* The results as they come, without `sorted`.
gather_unsorted(ts) ==
    LET res == as_completed(ts)
    IN  [n \in 1..Len(res) |-> [result |-> res[n][2]]]

\* tqdm.gather: `[i for _, i in sorted(res)]`, the results in the order of the
\* tasks
gather(ts) ==
    LET res == as_completed(ts)
    IN  [i \in 1..Len(res) |->
            [result |-> res[CHOOSE n \in 1..Len(res) : res[n][1] = i][2]]]

\* The results written to the rows by their position among the valid pairs
\* instead of by idx.
ApplyResultsByPosition(rows, pairs, ts) ==
    [i \in 1..Len(rows) |->
        IF i <= Len(pairs) /\ ~IsNone(ts[i].result)
        THEN [rows[i] EXCEPT !.doi = Val(ts[i].result).doi,
                             !.crossref_title = Val(ts[i].result).crossref_title,
                             !.similarity_score = Val(ts[i].result).similarity_score,
                             !.from_cache = Val(ts[i].result).from_cache]
        ELSE rows[i]]

\* the loop that writes the results to their rows (process_batch)
ApplyResults(rows, pairs, ts) ==
    [i \in 1..Len(rows) |->
        IF \E k \in 1..Len(pairs) : pairs[k].idx = i /\ ~IsNone(ts[k].result)
        THEN LET k == CHOOSE k \in 1..Len(pairs) : pairs[k].idx = i
                 result == Val(ts[k].result)
             IN  [rows[i] EXCEPT !.doi = result.doi,
                                 !.crossref_title = result.crossref_title,
                                 !.similarity_score = result.similarity_score,
                                 !.from_cache = result.from_cache]
        ELSE rows[i]]

\* ------------------------------------------------- enrich_with_resume

\* setup_session: self.session = aiohttp.ClientSession(...)
setup_session == "open"

\* no `finally`: the session stays as it is
session_left(s) == s

\* close_session: `if self.session: await self.session.close()`
close_session(s) == IF s # "none" THEN "closed" ELSE s

NoOutcome == [status |-> "none", cause |-> "", df |-> << >>]

\* len(remaining_df) // batch_size: the full batches only
total_batches_floor == Len(remaining_df) \div batch_size

\* (len(remaining_df) + batch_size - 1) // batch_size
total_batches == (Len(remaining_df) + batch_size - 1) \div batch_size

\* `if len(processed_df) >= target_size`
TargetReached(processed, target) == Len(processed) >= target

\* pd.concat(new_enriched_data) alone: the checkpoint's records are dropped
AccumulatedNewOnly(processed, new_data) == Concat(new_data)

\* pd.concat([processed_df] + new_enriched_data) or pd.concat(new_enriched_data)
Accumulated(processed, new_data) ==
    IF Len(processed) > 0 THEN Concat(<<processed>> \o new_data)
    ELSE Concat(new_data)

\* `if batch_id == total_batches - 1:` a checkpoint at the end of the run only
CheckpointDueAtEnd(current_total, interval, id, batches) == id = batches - 1

\* `current_total % checkpoint_interval == 0 or batch_id == total_batches - 1`
CheckpointDue(current_total, interval, id, batches) ==
    current_total % interval = 0 \/ id = batches - 1

\* f'capes_enriched_{target_size}_final.parquet'
FinalName(target) == "capes_enriched_" \o ToString(target) \o "_final.parquet"

\* The values of a process that is not running a batch.
NoBatch ==
    /\ batch_df' = << >>
    /\ valid_pairs' = << >>
    /\ tasks' = << >>
    /\ sem_value' = 0
    /\ waiters' = << >>

\* The values of a process that is not in a run.
NoRun ==
    /\ pc' = "idle"
    /\ processed_df' = << >>
    /\ remaining_df' = << >>
    /\ new_enriched_data' = << >>
    /\ batch_id' = 0
    /\ NoBatch

\* enrich_with_resume(df, target_size) from its start to the batch loop:
\* checkpoint lookup (pd.read_parquet raises on a file that is not whole), early
\* return, session setup, sampling.  A behaviour starts the process at most
\* max_runs times.
StartRun(target, max_runs) ==
    /\ pc = "idle"
    /\ runs < max_runs
    /\ runs' = runs + 1
    /\ api_calls' = 0
    /\ target_size' = target
    /\ LET last == get_last_checkpoint(checkpoints, target)
           resumed == ~IsNone(last.file) /\ last.records_processed > 0
           processed == IF resumed THEN Val(last.file).df ELSE << >>
           remaining_records == target - Len(processed)
       IN  IF resumed /\ ~Val(last.file).whole
           THEN /\ outcome' = [status |-> "raised", cause |-> "storage",
                               df |-> << >>]
                /\ NoRun
                /\ UNCHANGED session
           ELSE IF resumed /\ TargetReached(processed, target)
           THEN /\ outcome' = [status |-> "returned", cause |-> "checkpoint",
                               df |-> HeadRows(processed, target)]
                /\ NoRun
                /\ UNCHANGED session
           ELSE IF remaining_records <= 0
           THEN /\ outcome' = [status |-> "returned", cause |-> "nothing",
                               df |-> processed]
                /\ NoRun
                /\ session' = close_session(setup_session)
           ELSE IF SamplingRaises(df, has_year, remaining_records)
           THEN /\ outcome' = [status |-> "raised", cause |-> "sampling",
                               df |-> << >>]
                /\ NoRun
                /\ session' = close_session(setup_session)
           ELSE /\ \E sample \in Samples(df, has_year, remaining_records) :
                       remaining_df' = sample
                /\ processed_df' = processed
                /\ new_enriched_data' = << >>
                /\ batch_id' = 0
                /\ session' = setup_session
                /\ pc' = "loop"
                /\ outcome' = NoOutcome
                /\ NoBatch
    /\ UNCHANGED <<config_vars, call_vars, durable_vars>>

\* process_batch from its start to the suspension in gather
BeginBatch ==
    /\ pc = "loop"
    /\ batch_id < total_batches
    /\ LET start_idx == batch_id * batch_size
           end_idx == Min((batch_id + 1) * batch_size, Len(remaining_df))
           rows == SubSeq(remaining_df, start_idx + 1, end_idx)
           pairs == ValidPairs(rows)
           d == Dispatch(pairs, cache, << >>, max_concurrent, << >>)
       IN  /\ batch_df' = [i \in 1..Len(rows) |-> InitColumns(rows[i])]
           /\ valid_pairs' = pairs
           /\ tasks' = d.tasks
           /\ sem_value' = d.value
           /\ waiters' = d.waiters
    /\ pc' = "gather"
    /\ UNCHANGED <<config_vars, call_vars, durable_vars, target_size, processed_df,
                   remaining_df, new_enriched_data, batch_id, session, obs_vars>>

\* A waiting task is woken by a release and takes the free permit.
AcquireNext ==
    /\ pc = "gather"
    /\ waiters # << >>
    /\ sem_value > 0
    /\ sem_value' = sem_value - 1
    /\ waiters' = Tail(waiters)
    /\ tasks' = [tasks EXCEPT ![Head(waiters)].pc = "sleep"]
    /\ UNCHANGED <<config_vars, call_vars, durable_vars, run_vars, batch_df, valid_pairs,
                   obs_vars>>

\* The rate-limit sleep of task k ends and search_crossref sends its request.
SendRequest(k) ==
    /\ pc = "gather"
    /\ tasks[k].pc = "sleep"
    /\ tasks' = [tasks EXCEPT ![k].pc = "http", ![k].calls = @ + 1]
    /\ api_calls' = api_calls + 1
    /\ UNCHANGED <<config_vars, call_vars, durable_vars, run_vars, batch_df, valid_pairs,
                   sem_value, waiters, outcome, runs>>

\* the permit is kept: the block is left without a release
release_skipped(value) == value

\* the exit of `async with semaphore`, on a return or on an exception:
\* semaphore.release()
release(value) == value + 1

\* process_title after search_crossref returned r: the cache write (which the
\* storage may refuse), the release of the permit, the return.
TaskReturn(k, r, write_ok) ==
    /\ sem_value' = release(sem_value)
    /\ IF r.raised \/ ~write_ok
       THEN /\ tasks' = [tasks EXCEPT ![k].pc = "raised",
                                      ![k].cause = IF r.raised THEN "fetch"
                                                   ELSE "storage"]
            /\ cache' = cache
       ELSE /\ tasks' = [tasks EXCEPT ![k].pc = "done", ![k].result = r.value,
                                      ![k].writes = @ + 1,
                                      ![k].seq = Cardinality(Returned(tasks)) + 1]
            /\ cache' = CacheAfter(tasks[k].title, r.value, cache)

\* The request of task k ends in resp.
Response(k, resp, write_ok) ==
    /\ pc = "gather"
    /\ tasks[k].pc = "http"
    /\ IF resp.kind = "429"
       THEN /\ tasks' = [tasks EXCEPT ![k].pc = "backoff", ![k].backoffs = @ + 1]
            /\ UNCHANGED <<cache, sem_value>>
       ELSE TaskReturn(k, search_crossref(Val(tasks[k].title), resp), write_ok)
    /\ UNCHANGED <<config_vars, call_vars, checkpoints, progress, final_output, clock,
                   run_vars, batch_df, valid_pairs, waiters, obs_vars>>

\* the 429 is passed on as an exception after the sleep
status_429_raises == [raised |-> TRUE, value |-> None]

\* `elif response.status == 429: await asyncio.sleep(1); return None`
status_429 == [raised |-> FALSE, value |-> None]

\* The one-second sleep after a 429 ends: search_crossref returns None.
BackoffDone(k, write_ok) ==
    /\ pc = "gather"
    /\ tasks[k].pc = "backoff"
    /\ TaskReturn(k, status_429, write_ok)
    /\ UNCHANGED <<config_vars, call_vars, checkpoints, progress, final_output, clock,
                   run_vars, batch_df, valid_pairs, waiters, obs_vars>>

\* gather returns: process_batch writes the results to the rows and returns,
\* the loop appends the batch and saves the checkpoint that is due.
FinishBatch ==
    /\ pc = "gather"
    /\ \A k \in 1..Len(tasks) : tasks[k].pc = "done"
    /\ LET enriched_batch == ApplyResults(batch_df, valid_pairs, gather(tasks))
           new_data == Append(new_enriched_data, enriched_batch)
           current_total == Len(processed_df) + SumLen(new_data)
           saved == save_checkpoint(Accumulated(processed_df, new_data),
                                    target_size, current_total,
                                    checkpoints, progress, clock + 1)
       IN  /\ new_enriched_data' = new_data
           /\ IF CheckpointDue(current_total, checkpoint_interval, batch_id,
                               total_batches)
              THEN /\ checkpoints' = saved.files
                   /\ progress' = saved.ledger
                   /\ clock' = clock + 1
              ELSE UNCHANGED <<checkpoints, progress, clock>>
    /\ batch_id' = batch_id + 1
    /\ pc' = "loop"
    /\ NoBatch
    /\ UNCHANGED <<config_vars, call_vars, cache, final_output, target_size, processed_df,
                   remaining_df, session, obs_vars>>

\* A task raised: gather raises, the finally block closes the session and the
\* exception leaves enrich_with_resume.
BatchRaise ==
    /\ pc = "gather"
    /\ \E k \in 1..Len(tasks) :
           /\ tasks[k].pc = "raised"
           /\ outcome' = [status |-> "raised", cause |-> tasks[k].cause,
                          df |-> << >>]
    /\ session' = close_session(session)
    /\ NoRun
    /\ UNCHANGED <<config_vars, call_vars, durable_vars, target_size, api_calls, runs>>

\* After the last batch: the final table is written and returned.
FinishRun ==
    /\ pc = "loop"
    /\ batch_id = total_batches
    /\ LET final_df == Accumulated(processed_df, new_enriched_data)
       IN  /\ final_output' = WriteFile(final_output, FinalName(target_size),
                                        final_df, clock + 1)
           /\ outcome' = [status |-> "returned", cause |-> "final",
                          df |-> final_df]
    /\ clock' = clock + 1
    /\ session' = close_session(session)
    /\ NoRun
    /\ UNCHANGED <<config_vars, call_vars, cache, checkpoints, progress, target_size,
                   api_calls, runs>>

\* The process is killed inside the save_checkpoint call of FinishBatch: while
\* to_parquet writes ("write"), or with the file and the ledger row written,
\* before the old checkpoints are unlinked ("prune").  (The ledger is never
\* read by a run, so a kill before its insert differs in nothing a run sees.)
KillInSave(stage) ==
    /\ pc = "gather"
    /\ \A k \in 1..Len(tasks) : tasks[k].pc = "done"
    /\ LET new_data == Append(new_enriched_data,
                              ApplyResults(batch_df, valid_pairs, gather(tasks)))
           current_total == Len(processed_df) + SumLen(new_data)
           checkpoint_file == CheckpointName(target_size, current_total)
           content == Accumulated(processed_df, new_data)
           saved == save_checkpoint(content, target_size, current_total,
                                    checkpoints, progress, clock + 1)
       IN  /\ CheckpointDue(current_total, checkpoint_interval, batch_id,
                            total_batches)
           /\ checkpoints' =
                  IF stage = "write"
                  THEN WritePartial(checkpoints, checkpoint_file, clock + 1)
                  ELSE WriteFile(checkpoints, checkpoint_file, content, clock + 1)
           /\ progress' = IF stage = "write" THEN progress ELSE saved.ledger
    /\ clock' = clock + 1
    /\ outcome' = [status |-> "killed", cause |-> "", df |-> << >>]
    /\ session' = "none"
    /\ NoRun
    /\ UNCHANGED <<config_vars, call_vars, cache, final_output, target_size,
                   api_calls, runs>>

\* The save_checkpoint call of FinishBatch raises while to_parquet writes (the
\* storage refuses the write): the file is left cut short, the finally block
\* closes the session and the exception leaves enrich_with_resume.
SaveRaise ==
    /\ pc = "gather"
    /\ \A k \in 1..Len(tasks) : tasks[k].pc = "done"
    /\ LET new_data == Append(new_enriched_data,
                              ApplyResults(batch_df, valid_pairs, gather(tasks)))
           current_total == Len(processed_df) + SumLen(new_data)
       IN  /\ CheckpointDue(current_total, checkpoint_interval, batch_id,
                            total_batches)
           /\ checkpoints' = WritePartial(checkpoints,
                                          CheckpointName(target_size, current_total),
                                          clock + 1)
    /\ clock' = clock + 1
    /\ outcome' = [status |-> "raised", cause |-> "storage", df |-> << >>]
    /\ session' = close_session(session)
    /\ NoRun
    /\ UNCHANGED <<config_vars, call_vars, cache, progress, final_output, target_size,
                   api_calls, runs>>

\* The process is killed: what is in memory is lost, what is stored stays.
Kill ==
    /\ pc # "idle"
    /\ outcome' = [status |-> "killed", cause |-> "", df |-> << >>]
    /\ session' = "none"
    /\ NoRun
    /\ UNCHANGED <<config_vars, call_vars, durable_vars, target_size, api_calls, runs>>

\* An empty store and no process: the state before the first run.
InitStore ==
    /\ cache = {}
    /\ checkpoints = {}
    /\ progress = << >>
    /\ final_output = {}
    /\ clock = 0
    /\ pc = "idle"
    /\ target_size = 0
    /\ processed_df = << >>
    /\ remaining_df = << >>
    /\ new_enriched_data = << >>
    /\ batch_id = 0
    /\ session = "none"
    /\ batch_df = << >>
    /\ valid_pairs = << >>
    /\ tasks = << >>
    /\ sem_value = 0
    /\ waiters = << >>
    /\ outcome = NoOutcome
    /\ api_calls = 0
    /\ runs = 0

\* The steps of the tasks of a batch.
TaskStep ==
    \/ AcquireNext
    \/ \E k \in 1..Len(tasks) : SendRequest(k)
    \/ \E k \in 1..Len(tasks), resp \in Responses, write_ok \in BOOLEAN :
           Response(k, resp, write_ok)
    \/ \E k \in 1..Len(tasks), write_ok \in BOOLEAN : BackoffDone(k, write_ok)

\* The steps of a run, but its start.
RunStep ==
    \/ BeginBatch
    \/ FinishBatch
    \/ FinishRun
    \/ SaveRaise
    \/ Kill
    \/ \E stage \in {"write", "prune"} : KillInSave(stage)

\* No function is called directly.
NoCall == call = << >> /\ ret = None

\* One run of the pipeline over the input table, from an empty store.
Init ==
    /\ InitStore
    /\ NoCall
    /\ max_concurrent \in 1..MaxPermits
    /\ rate_limit = rate_limit_default
    /\ batch_size \in 1..MaxBatchSize
    /\ checkpoint_interval = MaxInterval
    /\ has_year \in BOOLEAN
    /\ df = IF has_year THEN InputRows ELSE WithoutYear(InputRows)

Next ==
    \/ \E target \in 1..MaxTarget : StartRun(target, 1)
    \/ RunStep
    \/ TaskStep
    \/ BatchRaise

Spec == Init /\ [][Next]_vars

\* Successive runs over the same store: a later run finds the cache and the
\* checkpoints the earlier ones left, finished or killed.  One permit, and a
\* checkpoint after every batch, so that a killed run leaves a partial one.
InitResume ==
    /\ InitStore
    /\ NoCall
    /\ max_concurrent = 1
    /\ rate_limit = rate_limit_default
    /\ batch_size \in 1..MaxBatchSize
    /\ checkpoint_interval = 1
    /\ has_year \in BOOLEAN
    /\ df = IF has_year THEN ResumeRows ELSE WithoutYear(ResumeRows)

NextResume ==
    \/ \E target \in 1..ResumeMaxTarget : StartRun(target, MaxRuns)
    \/ RunStep
    \/ TaskStep
    \/ BatchRaise

SpecResume == InitResume /\ [][NextResume]_vars

\* Runs over a table of records that are all skipped: no lookup is dispatched,
\* so the batch loop, the checkpoints and the resume logic are explored for
\* larger targets, batch sizes and checkpoint intervals.
InitRun ==
    /\ InitStore
    /\ NoCall
    /\ max_concurrent = MaxPermits
    /\ rate_limit = rate_limit_default
    /\ batch_size \in 1..RunMaxBatchSize
    /\ checkpoint_interval \in 1..RunMaxInterval
    /\ has_year \in BOOLEAN
    /\ df = IF has_year THEN BlankRows ELSE WithoutYear(BlankRows)

NextRun ==
    \/ \E target \in 1..RunMaxTarget : StartRun(target, RunMaxRuns)
    \/ RunStep

SpecRun == InitRun /\ [][NextRun]_vars

\* ---- find_best_match called on its own

\* the source titles find_best_match is called with
MatchTitles == {"", " ", "Title one", "Second paper"}

\* the candidates of a response: exact and near matches of the source titles,
\* an unrelated one, titles that are blank, empty or missing, a missing DOI
MatchItems ==
    { [DOI |-> Some("10.1/one"),   title |-> <<"Title One">>],
      [DOI |-> Some("10.1/near"),  title |-> <<"Title ones">>],
      [DOI |-> Some("10.1/two"),   title |-> <<"paper second">>],
      [DOI |-> Some("10.1/x"),     title |-> <<"Unrelated work">>],
      [DOI |-> Some("10.1/blank"), title |-> <<" ">>],
      [DOI |-> Some("10.1/empty"), title |-> <<"">>],
      [DOI |-> None,               title |-> << >>],
      [DOI |-> None,               title |-> <<"Title one">>] }

\* the lists of at most n candidates
ItemLists(n) == UNION {[1..m -> MatchItems] : m \in 0..n}

InitMatch ==
    /\ InitStore
    /\ max_concurrent = 1
    /\ rate_limit = rate_limit_default
    /\ batch_size = 1
    /\ checkpoint_interval = 1
    /\ has_year = FALSE
    /\ df = << >>
    /\ \E t \in MatchTitles, items \in ItemLists(MaxItems) :
           call = << [op |-> "find_best_match", original_title |-> t,
                      crossref_items |-> items] >>
    /\ ret = None

\* find_best_match(original_title, crossref_items) returns
CallFindBestMatch ==
    /\ Len(call) = 1
    /\ call[1].op = "find_best_match"
    /\ ret = None
    /\ ret' = Some(find_best_match(call[1].original_title, call[1].crossref_items))
    /\ UNCHANGED <<config_vars, durable_vars, run_vars, batch_vars, obs_vars, call>>

NextMatch == CallFindBestMatch

SpecMatch == InitMatch /\ [][NextMatch]_vars

\* ---- the match cache called on its own

\* 200 characters
LongPrefix == Repeat("a", KeyMaxLen)

\* the titles the cache is called with: two with the same key, two that differ
\* only after the 200th character
CacheTitles ==
    {Some("Title one"), Some(" title ONE\n"), Some("Second paper"),
     Some(LongPrefix \o "b"), Some(LongPrefix \o "c")}

\* the results that are cached: two matches and the explicit no-match
CacheValues ==
    { [doi |-> Some("10.1/a"), crossref_title |-> Some("Title A"),
       similarity_score |-> Some(95)],
      [doi |-> Some("10.1/b"), crossref_title |-> Some("Title B"),
       similarity_score |-> Some(91)],
      [doi |-> None, crossref_title |-> None, similarity_score |-> Some(0)] }

InitCache ==
    /\ InitStore
    /\ NoCall
    /\ max_concurrent = 1
    /\ rate_limit = rate_limit_default
    /\ batch_size = 1
    /\ checkpoint_interval = 1
    /\ has_year = FALSE
    /\ df = << >>

\* cache_result(title, doi, crossref_title, similarity_score)
CachePut(title, v) ==
    /\ Len(call) < MaxCalls
    /\ cache' = cache_result(title, v.doi, v.crossref_title, v.similarity_score,
                             cache)
    /\ call' = Append(call, [op |-> "cache_result", title |-> title, value |-> v])
    /\ ret' = None
    /\ UNCHANGED <<config_vars, checkpoints, progress, final_output, clock,
                   run_vars, batch_vars, obs_vars>>

\* get_cached_result(title)
CacheGet(title) ==
    /\ Len(call) < MaxCalls
    /\ ret' = Some(get_cached_result(title, cache))
    /\ call' = Append(call, [op |-> "get_cached_result", title |-> title,
                             value |-> None])
    /\ UNCHANGED <<config_vars, durable_vars, run_vars, batch_vars, obs_vars>>

NextCache ==
    \/ \E title \in CacheTitles, v \in CacheValues : CachePut(title, v)
    \/ \E title \in CacheTitles : CacheGet(title)

SpecCache == InitCache /\ [][NextCache]_vars

\* ---- one batch of ten records against a seeded cache and a scripted service

\* The batch: two records the filter skips (a blank title, a title of three
\* characters), three whose keys are cached, five that are fetched.
ScenarioRows ==
    << [NM_PRODUCAO |-> Some("   "),               AN_BASE |-> 0, row |-> 1],
       [NM_PRODUCAO |-> Some("Cached alpha"),      AN_BASE |-> 0, row |-> 2],
       [NM_PRODUCAO |-> Some("Quantum"),           AN_BASE |-> 0, row |-> 3],
       [NM_PRODUCAO |-> Some("Plasma waves"),      AN_BASE |-> 0, row |-> 4],
       [NM_PRODUCAO |-> Some("Cached beta"),       AN_BASE |-> 0, row |-> 5],
       [NM_PRODUCAO |-> Some("Timeout paper"),     AN_BASE |-> 0, row |-> 6],
       [NM_PRODUCAO |-> Some("abc"),               AN_BASE |-> 0, row |-> 7],
       [NM_PRODUCAO |-> Some("Limited paper"),     AN_BASE |-> 0, row |-> 8],
       [NM_PRODUCAO |-> Some("Cached gamma"),      AN_BASE |-> 0, row |-> 9],
       [NM_PRODUCAO |-> Some("Graph theory note"), AN_BASE |-> 0, row |-> 10] >>

\* the cache earlier runs left: three matches
ScenarioCache ==
    { [title_normalized |-> "CACHED ALPHA", doi |-> Some("10.2/alpha"),
       crossref_title |-> Some("Cached alpha."), similarity_score |-> Some(95)],
      [title_normalized |-> "CACHED BETA", doi |-> Some("10.2/beta"),
       crossref_title |-> Some("Cached betas"), similarity_score |-> Some(92)],
      [title_normalized |-> "CACHED GAMMA", doi |-> Some("10.2/gamma"),
       crossref_title |-> Some("Cached gammas"), similarity_score |-> Some(91)] }

\* what the scripted service answers the query with
ScenarioResponse(query) ==
    IF query = "Quantum"
    THEN [kind |-> "ok",
          items |-> << [DOI |-> Some("10.3/quantum"), title |-> <<"Quantums">>] >>]
    ELSE IF query = "Plasma waves"
    THEN [kind |-> "ok",
          items |-> << [DOI |-> Some("10.3/plasma"), title |-> <<"Plasma wavexy">>] >>]
    ELSE IF query = "Timeout paper" THEN [kind |-> "error", items |-> << >>]
    ELSE IF query = "Limited paper" THEN [kind |-> "429", items |-> << >>]
    ELSE IF query = "Graph theory note"
    THEN [kind |-> "ok",
          items |-> << [DOI |-> Some("10.3/graph"), title |-> <<"Graph theory notes">>] >>]
    ELSE [kind |-> "ok", items |-> << >>]

\* A run for all ten records has sampled them in the order of the table, and
\* is about to hand them to process_batch as one batch.
InitScenario ==
    /\ NoCall
    /\ max_concurrent \in 1..ScenarioMaxPermits
    /\ rate_limit = rate_limit_default
    /\ batch_size = Len(ScenarioRows)
    /\ checkpoint_interval \in 1..MaxInterval
    /\ has_year = FALSE
    /\ df = ScenarioRows
    /\ cache = ScenarioCache
    /\ checkpoints = {}
    /\ progress = << >>
    /\ final_output = {}
    /\ clock = 0
    /\ pc = "loop"
    /\ target_size = Len(ScenarioRows)
    /\ processed_df = << >>
    /\ remaining_df = ScenarioRows
    /\ new_enriched_data = << >>
    /\ batch_id = 0
    /\ session = "open"
    /\ batch_df = << >>
    /\ valid_pairs = << >>
    /\ tasks = << >>
    /\ sem_value = 0
    /\ waiters = << >>
    /\ outcome = NoOutcome
    /\ api_calls = 0
    /\ runs = 1

NextScenario ==
    \/ BeginBatch
    \/ AcquireNext
    \/ \E k \in 1..Len(tasks) : SendRequest(k)
    \/ \E k \in 1..Len(tasks) :
           Response(k, ScenarioResponse(Query(Val(tasks[k].title))), TRUE)
    \/ \E k \in 1..Len(tasks) : BackoffDone(k, TRUE)
    \/ FinishBatch
    \/ FinishRun

SpecScenario == InitScenario /\ [][NextScenario]_vars

\* ---- the rate limiting of process_title, with time
\*
\* Time is counted in units of 1/rate_limit second: `asyncio.sleep(1.0 /
\* self.rate_limit)` lasts one unit and a second lasts rate_limit units.
\* clock is the time; a task records when its sleep ends (wake) and when its
\* request was issued (sent).

\* the lookups of one batch
RateMaxTasks == 4
\* the most permits, the highest rate limit, the time observed
RateMaxPermits == 2
RateMaxLimit == 3
RateMaxTime == 4

\* the (idx, title) pairs of a batch of n records with valid titles that are
\* not in the cache
RatePairs(n) ==
    [k \in 1..n |-> [idx |-> k, title |-> Some("Paper number " \o ToString(k))]]

\* process_batch starts one process_title per pair at time 0: the first
\* max_concurrent take a permit and sleep, the others wait for a permit.
InitRate ==
    /\ max_concurrent \in 1..RateMaxPermits
    /\ rate_limit \in 1..RateMaxLimit
    /\ batch_size = RateMaxTasks
    /\ checkpoint_interval = 1
    /\ has_year = FALSE
    /\ df = << >>
    /\ cache = {}
    /\ checkpoints = {}
    /\ progress = << >>
    /\ final_output = {}
    /\ clock = 0
    /\ pc = "gather"
    /\ target_size = RateMaxTasks
    /\ processed_df = << >>
    /\ remaining_df = << >>
    /\ new_enriched_data = << >>
    /\ batch_id = 0
    /\ session = "open"
    /\ batch_df = << >>
    /\ valid_pairs = RatePairs(RateMaxTasks)
    /\ LET d == Dispatch(valid_pairs, cache, << >>, max_concurrent, << >>)
       IN  /\ tasks = [k \in 1..Len(d.tasks) |->
                          d.tasks[k] @@ [wake |-> 1, sent |-> None]]
           /\ sem_value = d.value
           /\ waiters = d.waiters
    /\ outcome = NoOutcome
    /\ api_calls = 0
    /\ runs = 1
    /\ NoCall

\* A waiting task is woken by a release, takes the free permit and starts its
\* sleep of 1/rate_limit second.
RateAcquire ==
    /\ waiters # << >>
    /\ sem_value > 0
    /\ sem_value' = sem_value - 1
    /\ waiters' = Tail(waiters)
    /\ tasks' = [tasks EXCEPT ![Head(waiters)].pc = "sleep",
                              ![Head(waiters)].wake = clock + 1]
    /\ UNCHANGED <<config_vars, call_vars, durable_vars, run_vars, batch_df,
                   valid_pairs, obs_vars>>

\* The sleep of task k is over: search_crossref issues its request.
RateSend(k) ==
    /\ tasks[k].pc = "sleep"
    /\ tasks[k].wake <= clock
    /\ tasks' = [tasks EXCEPT ![k].pc = "http", ![k].calls = @ + 1,
                              ![k].sent = Some(clock)]
    /\ api_calls' = api_calls + 1
    /\ UNCHANGED <<config_vars, call_vars, durable_vars, run_vars, batch_df,
                   valid_pairs, sem_value, waiters, outcome, runs>>

\* The request of task k ends, after any time (a 429 and its backoff are a
\* longer time): the result is cached, process_title releases the permit.
RateResponse(k) ==
    /\ tasks[k].pc = "http"
    /\ tasks' = [tasks EXCEPT ![k].pc = "done", ![k].writes = @ + 1,
                              ![k].seq = Cardinality(Returned(tasks)) + 1]
    /\ cache' = CacheAfter(tasks[k].title, None, cache)
    /\ sem_value' = release(sem_value)
    /\ UNCHANGED <<config_vars, call_vars, checkpoints, progress, final_output,
                   clock, run_vars, batch_df, valid_pairs, waiters, obs_vars>>

\* Time passes by one unit, when no timer is due and no free permit has a
\* taker (the event loop runs what is ready before it waits).
Tick ==
    /\ clock < RateMaxTime
    /\ \A k \in 1..Len(tasks) : tasks[k].pc = "sleep" => tasks[k].wake > clock
    /\ ~(waiters # << >> /\ sem_value > 0)
    /\ clock' = clock + 1
    /\ UNCHANGED <<config_vars, call_vars, cache, checkpoints, progress,
                   final_output, run_vars, batch_vars, obs_vars>>

NextRate ==
    \/ RateAcquire
    \/ \E k \in 1..Len(tasks) : RateSend(k)
    \/ \E k \in 1..Len(tasks) : RateResponse(k)
    \/ Tick

SpecRate == InitRate /\ [][NextRate]_vars

\* ---- normalize_title called on its own

\* the longest short title
NormMaxLen == 3

\* the characters of the short titles: a space, a newline, a lower-case and
\* an upper-case letter
NormChars == {" ", "\n", "a", "B"}

RECURSIVE StringsUpTo(_)
\* the strings of at most n of these characters
StringsUpTo(n) ==
    IF n = 0 THEN {""}
    ELSE LET shorter == StringsUpTo(n - 1)
         IN  shorter \cup {t \o c : t \in shorter, c \in NormChars}

\* the titles normalize_title is called with: a missing value, every short
\* title, and titles of more than 200 characters with and without blanks
\* around them
NormTitles ==
    {None} \cup {Some(t) : t \in StringsUpTo(NormMaxLen)}
    \cup {Some(LongPrefix \o "b"), Some(" " \o LongPrefix \o "b\n"),
          Some(LongPrefix), Some(" " \o LongPrefix)}

InitNormalize ==
    /\ InitStore
    /\ max_concurrent = 1
    /\ rate_limit = rate_limit_default
    /\ batch_size = 1
    /\ checkpoint_interval = 1
    /\ has_year = FALSE
    /\ df = << >>
    /\ \E t \in NormTitles : call = << [op |-> "normalize_title", title |-> t] >>
    /\ ret = None

\* normalize_title(title) returns
CallNormalizeTitle ==
    /\ Len(call) = 1
    /\ call[1].op = "normalize_title"
    /\ ret = None
    /\ ret' = Some(normalize_title(call[1].title))
    /\ UNCHANGED <<config_vars, durable_vars, run_vars, batch_vars, obs_vars, call>>

NextNormalize == CallNormalizeTitle

SpecNormalize == InitNormalize /\ [][NextNormalize]_vars

\* ---- should_skip_title called on its own

\* the titles should_skip_title is called with: a missing value, every short
\* title, titles of five and six characters, and titles around 250
\* characters, each with and without a newline inside
SkipTitles ==
    {None} \cup {Some(t) : t \in StringsUpTo(NormMaxLen)}
    \cup {Some("abcde"), Some("abcdef"), Some(" ab\ncd "), Some("ab\ncdef"),
          Some(Repeat("a", SkipLongMin - 1)), Some(Repeat("a", SkipLongMin)),
          Some(" " \o Repeat("a", SkipLongMin - 1) \o " "),
          Some(Repeat("a", SkipLongMin) \o "\n"),
          Some(Repeat("a", SkipLongMin) \o "\nb")}

InitSkip ==
    /\ InitStore
    /\ max_concurrent = 1
    /\ rate_limit = rate_limit_default
    /\ batch_size = 1
    /\ checkpoint_interval = 1
    /\ has_year = FALSE
    /\ df = << >>
    /\ \E t \in SkipTitles : call = << [op |-> "should_skip_title", title |-> t] >>
    /\ ret = None

\* should_skip_title(title) returns
CallShouldSkipTitle ==
    /\ Len(call) = 1
    /\ call[1].op = "should_skip_title"
    /\ ret = None
    /\ ret' = Some(should_skip_title(call[1].title))
    /\ UNCHANGED <<config_vars, durable_vars, run_vars, batch_vars, obs_vars, call>>

NextSkip == CallShouldSkipTitle

SpecSkip == InitSkip /\ [][NextSkip]_vars

\* ---- lookups against a service whose items may lack a field

\* the most records of a run of SpecLookup
LookupMaxTarget == 2

\* What the service answers in SpecLookup: no item, an item that matches
\* "Title one", the same item without its DOI field, an item without a title,
\* an item that matches nothing; HTTP 429; another status.
LookupResponses ==
    {[kind |-> "ok", items |-> its] :
        its \in { << >>,
                  << [DOI |-> Some("10.1/one"), title |-> <<"Title One">>] >>,
                  << [DOI |-> None, title |-> <<"Title One">>] >>,
                  << [DOI |-> Some("10.1/n"), title |-> << >>] >>,
                  << [DOI |-> Some("10.1/x"), title |-> <<"Unrelated work">>] >> }}
    \cup {[kind |-> k, items |-> << >>] : k \in {"429", "status"}}

\* One run over two records with a title, from an empty store, one permit.
InitLookup ==
    /\ InitStore
    /\ NoCall
    /\ max_concurrent = 1
    /\ rate_limit = rate_limit_default
    /\ batch_size \in 1..LookupMaxTarget
    /\ checkpoint_interval = 1
    /\ has_year = FALSE
    /\ df = WithoutYear(ResumeRows)

NextLookup ==
    \/ \E target \in 1..LookupMaxTarget : StartRun(target, 1)
    \/ BeginBatch
    \/ AcquireNext
    \/ \E k \in 1..Len(tasks) : SendRequest(k)
    \/ \E k \in 1..Len(tasks), resp \in LookupResponses : Response(k, resp, TRUE)
    \/ \E k \in 1..Len(tasks) : BackoffDone(k, TRUE)
    \/ FinishBatch
    \/ FinishRun

SpecLookup == InitLookup /\ [][NextLookup]_vars

\* ---- save_checkpoint called on its own

\* the target sizes save_checkpoint is called with (the name of the one starts
\* with the name of the other), and the largest count
SaveTargets == {1, 10}
SaveMaxCount == 4
\* the calls of a behaviour: enough to prune once next to another target's files
SaveMaxCalls == KeepCheckpoints + 2

\* A store with a cache entry and no checkpoint.
InitSave ==
    /\ cache = cache_result(Some("Title one"), Some("10.1/one"), Some("Title One"),
                            Some(100), {})
    /\ checkpoints = {}
    /\ progress = << >>
    /\ final_output = {}
    /\ clock = 0
    /\ pc = "idle"
    /\ target_size = 0
    /\ processed_df = << >>
    /\ remaining_df = << >>
    /\ new_enriched_data = << >>
    /\ batch_id = 0
    /\ session = "none"
    /\ batch_df = << >>
    /\ valid_pairs = << >>
    /\ tasks = << >>
    /\ sem_value = 0
    /\ waiters = << >>
    /\ outcome = NoOutcome
    /\ api_calls = 0
    /\ runs = 0
    /\ NoCall
    /\ max_concurrent = 1
    /\ rate_limit = rate_limit_default
    /\ batch_size = 1
    /\ checkpoint_interval = 1
    /\ has_year = TRUE
    /\ df = BlankRows

\* save_checkpoint(df, target_size, records_processed) with a table of
\* records_processed records
CallSaveCheckpoint(target, count) ==
    /\ Len(progress) < SaveMaxCalls
    /\ LET content == [i \in 1..count |-> InitColumns(df[1])]
           saved == save_checkpoint(content, target, count, checkpoints, progress,
                                    clock + 1)
       IN  /\ checkpoints' = saved.files
           /\ progress' = saved.ledger
    /\ clock' = clock + 1
    /\ UNCHANGED <<config_vars, cache, final_output, run_vars, batch_vars, obs_vars,
                   call_vars>>

NextSave ==
    \E target \in SaveTargets, count \in 1..SaveMaxCount :
        CallSaveCheckpoint(target, count)

SpecSave == InitSave /\ [][NextSave]_vars

\* ------------------------------------------------- properties

TaskIds == 1..Len(tasks)

\* the tasks whose external call is issued and not yet completed
Outstanding == {k \in TaskIds : tasks[k].pc \in {"http", "backoff"}}

\* C1: at every moment the number of external calls issued and not yet
\* completed is at most max_concurrent, also in a batch with more valid records
\* than permits.
C1_ConcurrencyBound == Cardinality(Outstanding) <= max_concurrent

\* every permit is in use while another valid record of the batch waits for one
C1_Witness ==
    /\ Cardinality(Outstanding) = max_concurrent
    /\ waiters # << >>
    /\ Len(valid_pairs) > max_concurrent

\* C2: a record whose key had a cache entry when its lookup began issues no
\* external call and ends with the cached result, also when the entry is a
\* cached no-match.
C2_CachedNeverFetched ==
    \A k \in TaskIds :
        tasks[k].had_entry =>
            /\ tasks[k].calls = 0
            /\ tasks[k].pc = "done"
            /\ ~IsNone(tasks[k].result)
            /\ Val(tasks[k].result).from_cache

\* a lookup answered by a cached no-match, in a run that did call the service
C2_Witness ==
    \E k \in TaskIds :
        /\ tasks[k].had_entry
        /\ IsNone(Val(tasks[k].result).doi)
        /\ Val(tasks[k].result).similarity_score = 0
        /\ api_calls > 0

\* the rows of the batch that process_batch is given (batch j, counted from 1)
BatchSlice(j) ==
    SubSeq(remaining_df, (j - 1) * batch_size + 1,
           Min(j * batch_size, Len(remaining_df)))

\* all four enrichment fields of an enriched row hold a value of their kind
FieldsDefined(r) ==
    /\ r.doi = None \/ Len(r.doi) = 1
    /\ r.crossref_title = None \/ Len(r.crossref_title) = 1
    /\ r.similarity_score \in 0..100
    /\ r.from_cache \in BOOLEAN

\* batch j as returned by process_batch is the slice it was given, enriched
BatchComplete(j) ==
    LET given == BatchSlice(j)
        got == new_enriched_data[j]
    IN  /\ Len(got) = Len(given)
        /\ \A i \in 1..Len(got) :
               /\ FieldsDefined(got[i])
               /\ got[i].NM_PRODUCAO = given[i].NM_PRODUCAO
               /\ got[i].row = given[i].row

\* C4: whatever the fetches of a batch end in, process_batch does not raise
\* (only a storage failure does), never stops before every lookup resolved, and
\* returns as many records as it was given, each with its four fields defined.
C4_BatchCompleteness ==
    /\ outcome.cause # "fetch"
    /\ \A k \in TaskIds : tasks[k].pc = "raised" => tasks[k].cause = "storage"
    /\ (pc = "gather" /\ \A k \in TaskIds : tasks[k].pc # "raised") =>
           \/ \A k \in TaskIds : tasks[k].pc = "done"
           \/ \E k \in TaskIds : tasks[k].pc \in {"sleep", "http", "backoff"}
           \/ waiters # << >> /\ sem_value > 0
    /\ pc \in {"loop", "gather"} =>
           \A j \in 1..Len(new_enriched_data) : BatchComplete(j)

\* a returned batch of two fetched records, one matched and one not
C4_Witness ==
    /\ pc = "loop"
    /\ Len(new_enriched_data) = 1
    /\ api_calls = 2
    /\ \E i, j \in 1..Len(new_enriched_data[1]) :
           /\ ~IsNone(new_enriched_data[1][i].doi)
           /\ IsNone(new_enriched_data[1][j].doi)
           /\ ~should_skip_title(new_enriched_data[1][j].NM_PRODUCAO)

\* the defaults of a record no result was written to
Untouched(r) ==
    /\ IsNone(r.doi)
    /\ IsNone(r.crossref_title)
    /\ r.similarity_score = 0
    /\ r.from_cache = FALSE

\* C10: a record whose title is skipped gets no cache lookup, no external call
\* and no cache write, and stays in the batch output with a null identifier, a
\* zero score and provenance fresh.
C10_SkippedUntouched ==
    /\ \A i \in 1..Len(batch_df) :
           should_skip_title(batch_df[i].NM_PRODUCAO) =>
               /\ Untouched(batch_df[i])
               /\ \A k \in TaskIds :
                      tasks[k].idx = i =>
                          /\ tasks[k].lookups = 0
                          /\ tasks[k].calls = 0
                          /\ tasks[k].writes = 0
    /\ \A j \in 1..Len(new_enriched_data) :
           /\ Len(new_enriched_data[j]) = Len(BatchSlice(j))
           /\ \A i \in 1..Len(new_enriched_data[j]) :
                  should_skip_title(new_enriched_data[j][i].NM_PRODUCAO) =>
                      Untouched(new_enriched_data[j][i])

\* a returned batch that holds a skipped record and a matched one
C10_Witness ==
    /\ pc = "loop"
    /\ \E j \in 1..Len(new_enriched_data) :
           \E i, m \in 1..Len(new_enriched_data[j]) :
               /\ should_skip_title(new_enriched_data[j][i].NM_PRODUCAO)
               /\ ~IsNone(new_enriched_data[j][m].doi)

\* C3: a run for target T that finds a checkpoint for T recorded at a count
\* C >= T (a file whose write came to its end) issues no external call and
\* returns exactly T records, the first T of that checkpoint.
C3_ResumeAtTarget ==
    [][\A T \in 1..ResumeMaxTarget :
           \A f \in GlobCheckpoints(checkpoints, T) :
               (/\ pc = "idle"
                /\ runs' = runs + 1
                /\ target_size' = T
                /\ f.whole
                /\ RecordsProcessedOf(f.name) >= T)
               => /\ pc' = "idle"
                  /\ outcome'.status = "returned"
                  /\ api_calls' = 0
                  /\ Len(outcome'.df) = T
                  /\ outcome'.df = HeadRows(f.df, T)
                  /\ cache' = cache]_vars

\* a second run has returned the records of a checkpoint that holds a fetched
\* match
C3_Witness ==
    /\ runs = 2
    /\ pc = "idle"
    /\ outcome.cause = "checkpoint"
    /\ Len(outcome.df) = target_size
    /\ \E i \in 1..Len(outcome.df) :
           ~IsNone(outcome.df[i].doi) /\ ~outcome.df[i].from_cache

\* the records of the batches completed by the run in progress, with those it
\* resumed from
CompletedRecords == Len(processed_df) + SumLen(new_enriched_data)

\* the count of the newest checkpoint stored for the run's target, 0 if none
NewestSavedCount == get_last_checkpoint(checkpoints, target_size).records_processed

\* C6: at every point of a run the records of completed batches that the newest
\* checkpoint of the target does not hold are at most one checkpoint interval.
C6_BoundedLoss ==
    pc \in {"loop", "gather"} =>
        CompletedRecords - NewestSavedCount <= checkpoint_interval

\* C7: after every completed save_checkpoint call (the step that ends with the
\* ledger row written and the process alive) at most three checkpoint files
\* exist for the target size of the save.
C7_Retention ==
    [][(Len(progress') = Len(progress) + 1 /\ pc' # "idle") =>
           Cardinality(GlobCheckpoints(checkpoints', target_size)) <= KeepCheckpoints
      ]_vars

\* the ledger rows of the saves made for target T
SavesFor(T) == {i \in 1..Len(progress) : progress[i].target_size = T}

\* more than three saves were made for a target, and three files are left
C7_Witness ==
    \E T \in 1..RunMaxTarget :
        /\ Cardinality(SavesFor(T)) > KeepCheckpoints
        /\ Cardinality({progress[i].checkpoint_file : i \in SavesFor(T)}) > KeepCheckpoints
        /\ Cardinality(GlobCheckpoints(checkpoints, T)) = KeepCheckpoints

\* the first and the last of a set of positions
First(S) == CHOOSE i \in S : \A j \in S : i <= j
Last(S) == CHOOSE i \in S : \A j \in S : i >= j

\* the candidates of a list whose score against the source title reaches the
\* threshold
AboveThreshold(t, items) ==
    {i \in 1..Len(items) : ItemScore(t, items[i]) >= similarity_threshold}

\* C8: find_best_match returns none when the candidate list is empty, the
\* (trimmed) source title is empty or no candidate scores at or above the
\* threshold, and otherwise the candidate of the lowest index whose score
\* reaches the threshold.
C8_FirstAboveThreshold ==
    (call # << >> /\ call[1].op = "find_best_match" /\ ret # None) =>
        LET t == call[1].original_title
            items == call[1].crossref_items
            good == AboveThreshold(t, items)
        IN  IF items = << >> \/ strip(upper(t)) = "" \/ good = {}
            THEN Val(ret) = None
            ELSE Val(ret) = Some([doi |-> items[First(good)].DOI,
                                  crossref_title |->
                                      Some(ItemTitle(items[First(good)])),
                                  similarity_score |->
                                      ItemScore(t, items[First(good)]),
                                  from_cache |-> FALSE])

\* the earlier cache_result calls for the key of title
PutsBefore(title) ==
    {i \in 1..(Len(call) - 1) :
        /\ call[i].op = "cache_result"
        /\ normalize_title(call[i].title) = normalize_title(title)}

\* C9: the cache holds at most one entry per NormalizedKey, and
\* get_cached_result(t) returns the identifier, matched title and score of the
\* last cache_result for a title of the same key, whatever was written for
\* that key before.
C9_CacheRoundTrip ==
    /\ \A r1, r2 \in cache : r1.title_normalized = r2.title_normalized => r1 = r2
    /\ (/\ call # << >>
        /\ call[Len(call)].op = "get_cached_result"
        /\ PutsBefore(call[Len(call)].title) # {}) =>
           LET written == call[Last(PutsBefore(call[Len(call)].title))].value
           IN  /\ ret # None
               /\ Val(ret) # None
               /\ Val(Val(ret)).doi = written.doi
               /\ Val(Val(ret)).crossref_title = written.crossref_title
               /\ Val(Val(ret)).similarity_score = Val(written.similarity_score)

\* a get that follows two writes of different values under two titles of the
\* same key, the table holding the one entry
C9_Witness ==
    /\ Len(call) = MaxCalls
    /\ call[Len(call)].op = "get_cached_result"
    /\ \E i, j \in PutsBefore(call[Len(call)].title) :
           /\ i < j
           /\ call[i].title # call[j].title
           /\ call[i].value # call[j].value
           /\ ~IsNone(call[j].value.doi)
    /\ Cardinality(cache) = 1

\* the positions in the batch of the fetched records, and of those expected to
\* end with an identifier (the cached ones, the fetched ones scoring 93 and 97)
ScenarioFetched == {3, 4, 6, 8, 10}
ScenarioIdentified == {2, 3, 5, 9, 10}

\* C5: in the scenario of ten records the service is called only for the five
\* uncached valid records, once each, and the returned batch has an identifier
\* for exactly the three cached records and the fetched ones scoring 93 and 97.
C5_Scenario ==
    /\ api_calls <= Cardinality(ScenarioFetched)
    /\ \A k \in TaskIds :
           /\ tasks[k].pc # "raised"
           /\ tasks[k].calls <= 1
           /\ tasks[k].calls = 1 => tasks[k].idx \in ScenarioFetched
    /\ \A i \in 1..Len(batch_df) :
           ~(\E k \in TaskIds : tasks[k].idx = i) => should_skip_title(batch_df[i].NM_PRODUCAO)
    /\ (pc = "loop" /\ batch_id = 1) =>
           /\ api_calls = Cardinality(ScenarioFetched)
           /\ Len(new_enriched_data) = 1
           /\ Len(new_enriched_data[1]) = Len(ScenarioRows)
           /\ {i \in 1..Len(new_enriched_data[1]) :
                   ~IsNone(new_enriched_data[1][i].doi)} = ScenarioIdentified
           /\ new_enriched_data[1][3].similarity_score = 93
           /\ new_enriched_data[1][10].similarity_score = 97
           /\ \A i \in {2, 5, 9} : new_enriched_data[1][i].from_cache

\* the batch of the scenario has been returned
C5_Witness ==
    /\ df = ScenarioRows
    /\ pc = "loop"
    /\ batch_id = 1
    /\ Len(new_enriched_data) = 1
    /\ api_calls = Cardinality(ScenarioFetched)

\* the explicit no-match entry of a title's key
NoMatchRow(title) ==
    [title_normalized |-> Val(normalize_title(title)), doi |-> None,
     crossref_title |-> None, similarity_score |-> Some(0)]

\* a fetch of task k ends in this step without a result
FetchEndsEmpty(k) ==
    /\ k \in TaskIds
    /\ tasks[k].pc \in {"http", "backoff"}
    /\ k \in 1..Len(tasks')
    /\ tasks'[k].pc = "done"
    /\ IsNone(tasks'[k].result)

\* C11: a fetch that ends in a transient failure or in no acceptable candidate
\* writes the no-match entry (identifier none, score 0) for the title's key,
\* the record ends with a null identifier, and a lookup that begins while an
\* entry for its key is in the cache, in the same or in a later run, is answered
\* from the cache and never issues an external call.
C11_NoMatchCached ==
    [][/\ \A k \in TaskIds :
              FetchEndsEmpty(k) => NoMatchRow(tasks[k].title) \in cache'
       /\ (pc = "gather" /\ pc' = "loop") =>
              \A k \in TaskIds :
                  IsNone(tasks[k].result) =>
                      Untouched(new_enriched_data'[batch_id + 1][tasks[k].idx])
       /\ (pc = "loop" /\ pc' = "gather") =>
              \A k \in 1..Len(tasks') :
                  CacheRows(cache, Val(normalize_title(tasks'[k].title))) # {} =>
                      /\ tasks'[k].had_entry
                      /\ tasks'[k].pc = "done"
                      /\ tasks'[k].result =
                             get_cached_result(tasks'[k].title, cache)
       /\ \A k \in 1..Len(tasks') : tasks'[k].had_entry => tasks'[k].calls = 0
      ]_vars

\* a later run answers from the cache a title whose fetch failed in an earlier
\* run: the record is returned with a null identifier and no call is issued
C11_Witness ==
    /\ runs = 2
    /\ pc = "gather"
    /\ api_calls = 0
    /\ \E k \in TaskIds :
           /\ tasks[k].had_entry
           /\ NoMatchRow(tasks[k].title) \in cache
           /\ IsNone(Val(tasks[k].result).doi)
           /\ Val(tasks[k].result).from_cache

\* the row of a batch after result r (None or <<result>>) was written to it
RowWith(r, result) ==
    IF IsNone(result) THEN r
    ELSE [r EXCEPT !.doi = Val(result).doi,
                   !.crossref_title = Val(result).crossref_title,
                   !.similarity_score = Val(result).similarity_score,
                   !.from_cache = Val(result).from_cache]

\* C12: when a batch returns, whatever the order its lookups completed in, row
\* i of the output is row i of the input batch, carrying the result of the
\* lookup that was started for that row, and nothing if none was.
C12_ResultsToOrigin ==
    [][(pc = "gather" /\ pc' = "loop") =>
           LET out == new_enriched_data'[batch_id + 1]
           IN  /\ Len(out) = Len(batch_df)
               /\ \A i \in 1..Len(out) :
                      /\ out[i].row = batch_df[i].row
                      /\ out[i].NM_PRODUCAO = batch_df[i].NM_PRODUCAO
                      /\ \A k \in TaskIds :
                             tasks[k].idx = i =>
                                 out[i] = RowWith(batch_df[i], tasks[k].result)
                      /\ (\A k \in TaskIds : tasks[k].idx # i) =>
                             out[i] = batch_df[i]
      ]_vars

\* every lookup of a batch has returned, a later record's before an earlier
\* one's, one with a match and one without
C12_Witness ==
    /\ pc = "gather"
    /\ \A k \in TaskIds : tasks[k].pc = "done"
    /\ \E j, k \in TaskIds :
           /\ j < k
           /\ tasks[j].seq > tasks[k].seq
           /\ tasks[j].calls = 1
           /\ tasks[k].calls = 1
           /\ IsNone(tasks[j].result) # IsNone(tasks[k].result)

\* C13: while the lookups of a batch run, every earlier batch of the run has
\* returned with its results written, the lookups in progress are all of the
\* current batch, and the checkpoint that was due after the batch before it is
\* on disk with all records completed so far.
C13_SequentialBatches ==
    /\ pc = "gather" =>
           /\ Len(new_enriched_data) = batch_id
           /\ Len(batch_df) = Len(BatchSlice(batch_id + 1))
           /\ \A k \in TaskIds :
                  /\ tasks[k].idx \in 1..Len(batch_df)
                  /\ tasks[k].title = BatchSlice(batch_id + 1)[tasks[k].idx].NM_PRODUCAO
    /\ pc = "loop" => tasks = << >> /\ Len(new_enriched_data) = batch_id
    /\ (/\ pc \in {"loop", "gather"}
        /\ batch_id >= 1
        /\ \/ CompletedRecords % checkpoint_interval = 0
           \/ batch_id = total_batches) =>
           \E f \in checkpoints :
               /\ f.name = CheckpointName(target_size, CompletedRecords)
               /\ f.df = Accumulated(processed_df, new_enriched_data)

\* a request of a later batch is in flight; the checkpoint due after the batch
\* before it, which was not the last, is on disk
C13_Witness ==
    /\ pc = "gather"
    /\ batch_id >= 1
    /\ \E k \in TaskIds : tasks[k].pc = "http"
    /\ CompletedRecords % checkpoint_interval = 0
    /\ \E f \in checkpoints : f.name = CheckpointName(target_size, CompletedRecords)

\* C14: a run that ends without a storage error has returned, not raised, and
\* the final output file of its target size is written, whatever the fetches
\* ended in and whatever checkpoint the run started from.
C14_AlwaysCompletes ==
    (/\ pc = "idle"
     /\ outcome.status \in {"returned", "raised"}
     /\ outcome.cause # "storage") =>
        /\ outcome.status = "returned"
        /\ \E f \in final_output : f.name = FinalName(target_size)

\* C15: for every target size, the checkpoint a run would select is a complete
\* snapshot: a file whose write came to its end, holding as many records as
\* its name records.
C15_WholeCheckpoints ==
    \A T \in 1..RunMaxTarget :
        LET last == get_last_checkpoint(checkpoints, T)
        IN  ~IsNone(last.file) =>
                /\ Val(last.file).whole
                /\ Len(Val(last.file).df) = last.records_processed

\* the table starts with the rows of the checkpoint the run started from and
\* holds no more records than the target
KeepsCheckpoint(table) ==
    /\ HeadRows(table, Len(processed_df)) = processed_df
    /\ Len(table) <= target_size

\* C16: a run that starts from a checkpoint with count C < T takes the
\* checkpoint's C records as they are, draws at most T - C records to process,
\* changes neither while it runs, and every checkpoint it writes, its final
\* output file and the table it returns start with those C records and hold
\* at most T records.
C16_ResumeKeepsPrefix ==
    [][/\ (pc = "idle" /\ pc' # "idle" /\ Len(processed_df') > 0) =>
              LET last == get_last_checkpoint(checkpoints, target_size')
              IN  /\ processed_df' = Val(last.file).df
                  /\ Len(processed_df') = last.records_processed
                  /\ Len(processed_df') < target_size'
                  /\ Len(remaining_df') <= target_size' - Len(processed_df')
       /\ (pc # "idle" /\ pc' # "idle") =>
              /\ processed_df' = processed_df
              /\ remaining_df' = remaining_df
       /\ (pc # "idle" /\ Len(processed_df) > 0) =>
              /\ \A f \in checkpoints' \ checkpoints :
                     f.whole => KeepsCheckpoint(f.df)
              /\ \A f \in final_output' \ final_output : KeepsCheckpoint(f.df)
              /\ outcome'.status = "returned" => KeepsCheckpoint(outcome'.df)
      ]_vars

\* a run that started from a checkpoint has processed its last batch and saved
\* the checkpoint that holds the target's records
C16_Witness ==
    /\ pc = "loop"
    /\ batch_id = total_batches
    /\ batch_id > 0
    /\ Len(processed_df) > 0
    /\ \E f \in checkpoints :
           /\ f.name = CheckpointName(target_size, target_size)
           /\ f.whole
           /\ Len(f.df) = target_size
           /\ HeadRows(f.df, Len(processed_df)) = processed_df
           /\ f.df # processed_df

\* the requests issued in the second that starts at time s
IssuedInSecond(s) ==
    {k \in 1..Len(tasks) :
        /\ ~IsNone(tasks[k].sent)
        /\ s <= Val(tasks[k].sent)
        /\ Val(tasks[k].sent) < s + rate_limit}

\* C17: across all lookups of a batch, in every window of one second at most
\* rate_limit external calls are issued.
C17_RateCeiling ==
    \A s \in 0..clock : Cardinality(IssuedInSecond(s)) <= rate_limit

\* C18: in every terminal state of enrich_with_resume, returned or raised, the
\* session is not open; and a run that has not ended holds exactly the session
\* it opened.
C18_SessionReleased ==
    /\ (pc = "idle" /\ outcome.status \in {"returned", "raised"}) =>
           session # "open"
    /\ pc # "idle" => session = "open"

\* the run raised on a cache write in the middle of a batch, after it had
\* issued requests and before any checkpoint, and its session is closed
C18_Witness ==
    /\ pc = "idle"
    /\ outcome.status = "raised"
    /\ outcome.cause = "storage"
    /\ api_calls > 0
    /\ checkpoints = {}
    /\ session = "closed"

\* C19: a lookup issues at most one request.  After a 429 and its backoff the
\* lookup ends without another request and with no result, the no-match entry
\* is cached as after any fetch without a result, the batch goes on (only a
\* cache write the storage refuses ends it), and the record of every lookup
\* without a result leaves the batch with a null identifier.
C19_NoRetry ==
    [][/\ \A k \in 1..Len(tasks') : tasks'[k].calls <= 1
       /\ \A k \in TaskIds :
              (tasks[k].pc = "backoff" /\ pc' = "gather" /\ tasks'[k] # tasks[k]) =>
                  /\ tasks'[k].calls = 1
                  /\ api_calls' = api_calls
                  /\ \/ /\ tasks'[k].pc = "done"
                        /\ IsNone(tasks'[k].result)
                        /\ cache' = CacheAfter(tasks[k].title, None, cache)
                     \/ /\ tasks'[k].pc = "raised"
                        /\ tasks'[k].cause = "storage"
                        /\ cache' = cache
       /\ (pc = "gather" /\ pc' = "loop") =>
              \A k \in TaskIds :
                  IsNone(tasks[k].result) =>
                      IsNone(new_enriched_data'[batch_id + 1][tasks[k].idx].doi)
      ]_vars

\* a batch has ended in which a lookup got a 429: one request was issued for
\* it, its record has a null identifier, and the run goes on
C19_Witness ==
    /\ pc = "gather"
    /\ \A k \in TaskIds : tasks[k].pc = "done"
    /\ \E k \in TaskIds :
           /\ tasks[k].backoffs = 1
           /\ tasks[k].calls = 1
           /\ IsNone(tasks[k].result)
           /\ NoMatchRow(tasks[k].title) \in cache
    /\ \E k \in TaskIds : tasks[k].backoffs = 0 /\ tasks[k].calls = 1

\* the title is absent, empty or made of whitespace only
Blank(title) == IsNone(title) \/ strip(Val(title)) = ""

\* C20: normalize_title returns none for a title that is absent, empty or
\* whitespace-only, and for every other title the trimmed, upper-cased title
\* cut to at most 200 characters.
C20_NormalizeTitle ==
    (Len(call) = 1 /\ call[1].op = "normalize_title" /\ ~IsNone(ret)) =>
        LET title == call[1].title
            key == Val(ret)
        IN  IF Blank(title) THEN IsNone(key)
            ELSE /\ ~IsNone(key)
                 /\ Len(Val(key)) <= KeyMaxLen
                 /\ Val(key) = Prefix(upper(strip(Val(title))), KeyMaxLen)

\* C21: should_skip_title returns true for every title whose length after
\* trimming is below 6 characters and for every title whose length after
\* trimming is 250 characters or more.
C21_ShortAndLongSkipped ==
    (/\ Len(call) = 1
     /\ call[1].op = "should_skip_title"
     /\ ~IsNone(ret)
     /\ ~IsNone(call[1].title)) =>
        LET n == Len(strip(Val(call[1].title)))
        IN  (n <= SkipShortMax \/ n >= SkipLongMin) => Val(ret) = TRUE

\* C22: when a batch completes and the cumulative count crossed a multiple of
\* the checkpoint interval during the batch, or the batch was the last of the
\* run, a checkpoint named for (target, cumulative count) that holds the full
\* accumulated table is on disk.
C22_CheckpointOnCrossing ==
    [][(pc = "gather" /\ pc' = "loop") =>
           LET before == CompletedRecords
               after == Len(processed_df') + SumLen(new_enriched_data')
           IN  (\/ before \div checkpoint_interval < after \div checkpoint_interval
                \/ batch_id = total_batches - 1) =>
                   \E f \in checkpoints' :
                       /\ f.name = CheckpointName(target_size, after)
                       /\ f.whole
                       /\ f.df = Accumulated(processed_df', new_enriched_data')
      ]_vars

\* the checkpoint files stored for exactly target size T, with the count each
\* was saved at
StoredFor(T) ==
    {p \in checkpoints \X (0..RunMaxTarget) :
        p[1].name = CheckpointName(T, p[2])}

HoldsPermit(k) == tasks[k].pc \in {"sleep", "http", "backoff"}

\* C24: no lookup reads or writes the cache while it holds a permit (a step in
\* which a task writes the cache starts with the task outside `async with
\* semaphore`), and a record that is skipped or answered from the cache never
\* holds a permit and never takes the pause.
C24_CacheOutsideGate ==
    [][/\ \A k \in TaskIds :
              (pc' = "gather" /\ tasks'[k].writes > tasks[k].writes) =>
                  ~HoldsPermit(k)
       /\ \A k \in TaskIds :
              (pc' = "gather" /\ tasks'[k].lookups > tasks[k].lookups) =>
                  ~HoldsPermit(k)
       /\ \A k \in TaskIds :
              (tasks[k].had_entry \/ should_skip_title(tasks[k].title)) =>
                  ~HoldsPermit(k)
      ]_vars

\* C25: while a batch is in progress the permits held by its lookups and the
\* free permits add up to max_concurrent, whatever the calls ended in (a match,
\* no match, an error status, a 429 and its backoff, a transport exception, a
\* refused cache write), and when every lookup of the batch has returned all
\* permits are free.
C25_PermitsConserved ==
    pc = "gather" =>
        /\ Cardinality({k \in TaskIds : HoldsPermit(k)}) + sem_value = max_concurrent
        /\ sem_value >= 0
        /\ (\A k \in TaskIds : tasks[k].pc \in {"done", "raised"}) =>
               sem_value = max_concurrent

\* a batch with more lookups than permits has completed, one lookup after a
\* 429, one with a match: every permit is free
C25_Witness ==
    /\ pc = "gather"
    /\ Len(tasks) > max_concurrent
    /\ \A k \in TaskIds : tasks[k].pc = "done"
    /\ \E k \in TaskIds : tasks[k].backoffs = 1
    /\ \E k \in TaskIds : tasks[k].calls = 1 /\ ~IsNone(tasks[k].result)
    /\ sem_value = max_concurrent

\* the key of task k's title has an entry in the cache c
HasEntry(k, c) == CacheRows(c, Val(normalize_title(tasks[k].title))) # {}

\* C26: when every lookup of a batch has returned, every non-skipped title of
\* the batch has an entry in the cache, whether or not a checkpoint follows;
\* no step, a kill and a restart included, takes a key out of the cache; and
\* a lookup that starts while its key has an entry returns the cached result
\* without an external call.
C26_AttemptedTitlesCached ==
    [][/\ (pc' = "gather" /\ \A k \in 1..Len(tasks') : tasks'[k].pc = "done") =>
              \A k \in 1..Len(tasks') :
                  CacheRows(cache', Val(normalize_title(tasks'[k].title))) # {}
       /\ \A r \in cache : CacheRows(cache', r.title_normalized) # {}
       /\ (pc = "loop" /\ pc' = "gather") =>
              \A k \in 1..Len(tasks') :
                  CacheRows(cache, Val(normalize_title(tasks'[k].title))) # {} =>
                      /\ tasks'[k].pc = "done"
                      /\ tasks'[k].calls = 0
                      /\ ~IsNone(tasks'[k].result)
                      /\ Val(tasks'[k].result).from_cache
       /\ api_calls' > api_calls =>
              \E k \in TaskIds : tasks'[k].calls > tasks[k].calls /\ ~tasks[k].had_entry
      ]_vars

\* a second run, started after a first run was killed before any checkpoint,
\* has dispatched a batch whose titles are all answered from the cache: it has
\* issued no external call
C26_Witness ==
    /\ runs = 2
    /\ checkpoints = {}
    /\ pc = "gather"
    /\ tasks # << >>
    /\ \A k \in TaskIds : HasEntry(k, cache) /\ tasks[k].had_entry /\ tasks[k].calls = 0
    /\ api_calls = 0

\* C27: in the output of every batch, a record's from_cache flag is true
\* exactly when its lookup found an entry for its key in the cache before any
\* fetch (a cached no-match included), and false for every record that was
\* skipped, freshly matched, or fetched without a match.
C27_ProvenanceFlag ==
    [][(pc = "gather" /\ pc' = "loop") =>
           LET out == new_enriched_data'[batch_id + 1]
           IN  /\ Len(out) = Len(batch_df)
               /\ \A i \in 1..Len(out) :
                      out[i].from_cache =
                          (\E k \in TaskIds : tasks[k].idx = i /\ tasks[k].had_entry)
               /\ \A k \in TaskIds :
                      tasks[k].had_entry = (tasks[k].calls = 0)
      ]_vars

\* the batches completed so far hold a record served from a cached no-match,
\* the record whose fetch without a match wrote that entry, and a skipped one
C27_Witness ==
    LET done == Concat(new_enriched_data)
    IN  /\ \E i \in 1..Len(done) : done[i].from_cache /\ IsNone(done[i].doi)
        /\ \E i, j \in 1..Len(done) :
               /\ i # j
               /\ ~done[i].from_cache /\ IsNone(done[i].doi)
               /\ ~should_skip_title(done[i].NM_PRODUCAO)
               /\ ~done[j].from_cache
               /\ should_skip_title(done[j].NM_PRODUCAO)

\* a match: identifier and matched title present, score at least the threshold
IsMatchEntry(r) ==
    /\ ~IsNone(r.doi)
    /\ ~IsNone(r.crossref_title)
    /\ ~IsNone(r.similarity_score)
    /\ Val(r.similarity_score) >= similarity_threshold

\* a no-match: identifier and matched title null, score 0
IsNoMatchEntry(r) ==
    /\ IsNone(r.doi)
    /\ IsNone(r.crossref_title)
    /\ r.similarity_score = Some(0)

\* C28: starting from an empty cache, every cache entry is a match or a
\* no-match, and every enriched record with an identifier has a score of at
\* least the threshold and every record without one has score 0.
C28_EntriesWellFormed ==
    /\ \A r \in cache : IsMatchEntry(r) \/ IsNoMatchEntry(r)
    /\ LET done == Concat(new_enriched_data)
       IN  \A i \in 1..Len(done) :
               IF IsNone(done[i].doi) THEN done[i].similarity_score = 0
               ELSE done[i].similarity_score >= similarity_threshold

\* the input columns of an output record
InputColumns(r) ==
    [NM_PRODUCAO |-> r.NM_PRODUCAO, AN_BASE |-> r.AN_BASE, row |-> r.row]

\* C29: the records to process are cut into ceil(n / batch_size) contiguous
\* batches of exactly batch_size records, but possibly the last; the outputs
\* of the batches completed so far, in batch order, are the first records of
\* the set in its order, each once, and after the last batch all of them.
C29_Partition ==
    pc # "idle" =>
        LET n == Len(remaining_df)
            done == Concat(new_enriched_data)
        IN  /\ total_batches * batch_size >= n
            /\ (total_batches - 1) * batch_size < n
            /\ Len(new_enriched_data) = batch_id
            /\ batch_id <= total_batches
            /\ \A j \in 1..Len(new_enriched_data) :
                   /\ j < total_batches => Len(new_enriched_data[j]) = batch_size
                   /\ Len(new_enriched_data[j]) \in 1..batch_size
            /\ Len(done) <= n
            /\ \A i \in 1..Len(done) : InputColumns(done[i]) = remaining_df[i]
            /\ batch_id = total_batches => Len(done) = n
            /\ pc = "gather" =>
                   /\ Len(batch_df) = Min(batch_size, n - Len(done))
                   /\ \A i \in 1..Len(batch_df) :
                          InputColumns(batch_df[i]) = remaining_df[Len(done) + i]

\* the last batch of a run is done and it was shorter than the ones before it
C29_Witness ==
    /\ pc = "loop"
    /\ batch_id = total_batches
    /\ batch_id >= 2
    /\ Len(new_enriched_data[1]) = batch_size
    /\ Len(new_enriched_data[batch_id]) < batch_size
    /\ \A i, j \in 1..Len(remaining_df) : i # j => remaining_df[i] # remaining_df[j]

\* the cache key of task k of ts
KeyOf(ts, k) == Val(normalize_title(ts[k].title))

\* C30 as stated: the service is queried at most once per distinct key, also
\* when several records of one batch share the key.
C30_OncePerKey ==
    \A j, k \in TaskIds :
        (j # k /\ KeyOf(tasks, j) = KeyOf(tasks, k)) =>
            ~(tasks[j].calls >= 1 /\ tasks[k].calls >= 1)

\* C30 as amended: the service is queried at most once per record, and never
\* for a record whose key has an entry when its batch is dispatched (had_entry
\* is exactly that); every key of a batch has an entry when the batch
\* completes, so that only records of one and the same batch are queried for
\* the same key.
C30_OncePerRecord ==
    [][/\ \A k \in 1..Len(tasks') :
              /\ tasks'[k].calls <= 1
              /\ tasks'[k].had_entry => tasks'[k].calls = 0
       /\ (pc = "loop" /\ pc' = "gather") =>
              \A k \in 1..Len(tasks') :
                  tasks'[k].had_entry = (CacheRows(cache, KeyOf(tasks', k)) # {})
       /\ (pc = "gather" /\ pc' = "loop") =>
              \A k \in TaskIds : CacheRows(cache', KeyOf(tasks, k)) # {}
       /\ (pc = "gather" /\ pc' = "gather") =>
              \A k \in TaskIds : tasks'[k].had_entry = tasks[k].had_entry
      ]_vars

\* two records of one batch share a key, each was queried once and both
\* lookups have returned
C30_Witness ==
    \E j, k \in TaskIds :
        /\ j # k
        /\ KeyOf(tasks, j) = KeyOf(tasks, k)
        /\ tasks[j].calls = 1 /\ tasks[k].calls = 1
        /\ tasks[j].pc = "done" /\ tasks[k].pc = "done"


\* C31: a run over a table with a year column that starts from a whole
\* checkpoint of its target size with count C < T gets to its batch loop with
\* records to process, and when it returns the checkpoint a later run would
\* select has a count greater than C.
C31_ResumeProgress ==
    /\ [][LET last == get_last_checkpoint(checkpoints, target_size')
              C == last.records_processed
          IN  (/\ runs' = runs + 1
               /\ has_year
               /\ ~IsNone(last.file)
               /\ Val(last.file).whole
               /\ Len(Val(last.file).df) = C
               /\ 0 < C /\ C < target_size') =>
                  /\ pc' = "loop"
                  /\ Len(remaining_df') > 0
         ]_vars
    /\ [][(/\ pc = "loop" /\ pc' = "idle"
           /\ has_year
           /\ Len(processed_df) > 0
           /\ outcome'.status = "returned") =>
              get_last_checkpoint(checkpoints', target_size).records_processed
                  > Len(processed_df)
         ]_vars


\* every year of the table has at least n records
EveryYearHas(rows, n) ==
    \A i \in 1..Len(rows) : Len(YearData(rows, rows[i].AN_BASE)) >= n

\* C32: a run that starts without a checkpoint of its target size T, over a
\* table with a year column and at least T records of every year, gets to its
\* batch loop, and at its end the table it returns, the final output file and
\* the checkpoint a later run would select hold exactly T records.
C32_ExactTarget ==
    /\ [][(/\ runs' = runs + 1
           /\ has_year
           /\ EveryYearHas(df, target_size')
           /\ IsNone(get_last_checkpoint(checkpoints, target_size').file)) =>
              pc' = "loop"
         ]_vars
    /\ [][(/\ pc = "loop" /\ pc' = "idle"
           /\ has_year
           /\ EveryYearHas(df, target_size)
           /\ processed_df = << >>
           /\ outcome'.status = "returned") =>
              LET last == get_last_checkpoint(checkpoints', target_size)
              IN  /\ Len(outcome'.df) = target_size
                  /\ \E f \in final_output' :
                         /\ f.name = FinalName(target_size)
                         /\ Len(f.df) = target_size
                  /\ ~IsNone(last.file)
                  /\ last.records_processed = target_size
                  /\ Len(Val(last.file).df) = target_size
         ]_vars


\* C33: every checkpoint file whose write came to its end is named for a
\* target size T and a count C with 0 < C <= T and holds exactly C records;
\* every save of a run records the number of records the run has completed,
\* in the ledger and in the file it leaves, and that number is greater than
\* before the batch and never falls during a run, so the counts of the
\* successive checkpoints of one run are strictly increasing.
C33_CheckpointCounts ==
    /\ [](\A f \in checkpoints :
              f.whole =>
                  LET C == RecordsProcessedOf(f.name)
                  IN  /\ Len(f.df) = C
                      /\ 0 < C
                      /\ \E T \in C..RunMaxTarget : f.name = CheckpointName(T, C))
    /\ [][progress' # progress =>
              LET saved == progress'[Len(progress')]
                  C == saved.records_processed
              IN  /\ Len(progress') = Len(progress) + 1
                  /\ saved.target_size = target_size
                  /\ C = Len(processed_df) + SumLen(new_enriched_data) + Len(batch_df)
                  /\ C > CompletedRecords
                  /\ 0 < C /\ C <= target_size
                  /\ \E f \in checkpoints' :
                         /\ f.name = CheckpointName(target_size, C)
                         /\ f.name = saved.checkpoint_file
                         /\ f.whole
                         /\ Len(f.df) = C
         ]_vars
    /\ [][(pc # "idle" /\ pc' # "idle") =>
              Len(processed_df') + SumLen(new_enriched_data') >= CompletedRecords
         ]_vars

\* a run resumed from a checkpoint has saved two checkpoints of its own
C33_Witness ==
    /\ pc = "loop"
    /\ Len(processed_df) > 0
    /\ \E f, g \in checkpoints :
           /\ f.whole /\ g.whole
           /\ f.name = CheckpointName(target_size, Len(processed_df) + 1)
           /\ g.name = CheckpointName(target_size, Len(processed_df) + 2)
           /\ CompletedRecords = Len(processed_df) + 2


\* the checkpoint files named for target size T, with any count
NamedFor(files, T) ==
    {f \in files : f.name = CheckpointName(T, RecordsProcessedOf(f.name))}

\* C34: a save_checkpoint call for target size T that comes to its end leaves
\* the file it has written in place, whole and with as many records as were
\* saved, leaves the checkpoint files of every other target size as they were,
\* leaves the cache table as it was, and adds one row to the progress ledger,
\* whose earlier rows stay as they were.
C34_SaveFrame ==
    [][progress' # progress =>
           LET saved == progress'[Len(progress')]
               T == saved.target_size
           IN  /\ \E f \in checkpoints' :
                      /\ f.name = saved.checkpoint_file
                      /\ f.name = CheckpointName(T, saved.records_processed)
                      /\ f.whole
                      /\ Len(f.df) = saved.records_processed
                      /\ f.mtime = clock'
               /\ \A f \in checkpoints : f \notin NamedFor(checkpoints, T) =>
                                             f \in checkpoints'
               /\ \A f \in checkpoints' : f \notin NamedFor(checkpoints', T) =>
                                              f \in checkpoints
               /\ cache' = cache
               /\ Len(progress') = Len(progress) + 1
               /\ SubSeq(progress', 1, Len(progress)) = progress
      ]_vars

\* a save has pruned a checkpoint of its target size (the ledger has a row for
\* a file that is gone) while checkpoints of another target size and cache
\* entries are stored
C34_Witness ==
    /\ progress # << >>
    /\ LET T == progress[Len(progress)].target_size
       IN  /\ \E i \in 1..Len(progress) :
                  /\ progress[i].target_size = T
                  /\ \A f \in checkpoints : f.name # progress[i].checkpoint_file
           /\ Cardinality(NamedFor(checkpoints, T)) = KeepCheckpoints
           /\ checkpoints \ NamedFor(checkpoints, T) # {}
    /\ cache # {}

====
